---- MODULE Spec2Model ----
(***************************************************************************)
(* Model of the response normalizer of the LLM Math Solver front end       *)
(* (src/frontend/math-llm-frontend/app/(tabs)/index.tsx).  The file holds  *)
(* two revisions of the screen: the first at lines 56-597 (suffix R1) and  *)
(* the second at lines 634-1072 (suffix R2).  Each revision defines its    *)
(* own extractJsonFromText, normalizeParsed, pickImage and send.           *)
(*                                                                         *)
(* JavaScript strings are TLA+ strings; positions are 1-based.  JavaScript *)
(* values are tagged records (field t), so that values of different types  *)
(* can be compared.  A thrown exception is the value JThrow.               *)
(***************************************************************************)
EXTENDS Integers, Sequences, FiniteSets, TLC

VARIABLES
  pc,        \* position of the harness: "start", "r1", "r2", ...; of send:
             \* "idle", "fetching", "done", "failed"
  argParsed, \* first argument of normalizeParsed (a JS value)
  argRaw,    \* second argument of normalizeParsed (a JS value)
  str,       \* argument of the string helpers (cleanLatex); the body of the
             \* backend's reply
  out,       \* value returned by the call made (or JThrow)
  rev,       \* the revision of the screen that is mounted (1 or 2; 0 when
             \* the functions are called on their own)
  image,     \* useState: the picked image
  resultRaw, \* useState: the reply as received
  result,    \* useState: the normalized result
  loading,   \* useState: a solve request is running
  backendUrl, \* useState: the address of the backend
  showRaw,   \* useState: the raw reply is shown
  uri,       \* send: the uri of the image the request uploads
  requests,  \* the calls of send that are between their try and their finally
  alert      \* the alert shown last, by its first argument ("" when none was)

\* The state of the screen component.
screen ==
  <<rev, image, resultRaw, result, loading, backendUrl, showRaw, uri, requests, alert>>

vars == <<pc, argParsed, argRaw, str, out, rev, image, resultRaw, result, loading,
          backendUrl, showRaw, uri, requests, alert>>

(***************************************************************************)
(* Strings                                                                 *)
(***************************************************************************)

Ch(s, i) == SubSeq(s, i, i)

Sub(s, i, j) == IF i > j THEN "" ELSE SubSeq(s, i, j)

From(s, i) == IF i > Len(s) THEN "" ELSE SubSeq(s, i, Len(s))

StartsAt(s, i, p) ==
  /\ i >= 1
  /\ i + Len(p) - 1 <= Len(s)
  /\ Sub(s, i, i + Len(p) - 1) = p

\* The characters the regular-expression class \s and String.prototype.trim
\* treat as white space (those a TLA+ string can hold).
WS == {" ", "\t", "\n", "\r", "\f"}

DIGITS == {"0", "1", "2", "3", "4", "5", "6", "7", "8", "9"}

\* The backtick character (a TLA+ string literal cannot hold it alone).
BT == SubSeq("`'", 1, 1)

\* A code-fence marker: three backticks.
FENCE == BT \o BT \o BT

\* The characters of the class [double quote, single quote, backtick].
QUOTES == {"\"", "'", BT}

\* Stand-in for U+2212 MINUS SIGN, which a TLA+ string cannot hold.
UMINUS == "~"

\* Index just past the maximal run of characters of C that starts at i.
RECURSIVE RunEnd(_, _, _)
RunEnd(s, i, C) ==
  IF i > Len(s) \/ Ch(s, i) \notin C THEN i ELSE RunEnd(s, i + 1, C)

\* Index just before the maximal run of characters of C that ends at j.
RECURSIVE RunStart(_, _, _)
RunStart(s, j, C) ==
  IF j < 1 \/ Ch(s, j) \notin C THEN j ELSE RunStart(s, j - 1, C)

\* Statements in sequence (t = f(t); t = g(t); ...): v is computed first, the
\* comparison needing its value, and F is then applied to it.
Then(v, F(_)) == IF v = v THEN F(v) ELSE F(v)

\* String.prototype.trim
trim(s) == Sub(s, RunEnd(s, 1, WS), RunStart(s, Len(s), WS))

\* The least and the greatest position of a set of positions, 0 when the set
\* is empty.
leastOr0(S) == IF S = {} THEN 0 ELSE CHOOSE x \in S : \A y \in S : x <= y
greatestOr0(S) == IF S = {} THEN 0 ELSE CHOOSE x \in S : \A y \in S : x >= y

\* String.prototype.indexOf(p, from): position of the first occurrence of p
\* at or after i, 0 when there is none (-1 in JavaScript).
indexOf(s, p, i) == leastOr0({k \in i..(Len(s) - Len(p) + 1) : StartsAt(s, k, p)})

\* String.prototype.lastIndexOf(p): position of the last occurrence, 0 if none.
lastIndexBefore(s, p, j) == greatestOr0({k \in 1..j : StartsAt(s, k, p)})

\* The pieces f[a], ..., f[b] joined.
RECURSIVE joined(_, _, _)
joined(f, a, b) ==
  IF a > b THEN ""
  ELSE IF a = b THEN f[a]
  ELSE joined(f, a, (a + b) \div 2) \o joined(f, (a + b) \div 2 + 1, b)

lastIndexOf(s, p) == lastIndexBefore(s, p, Len(s))

\* s.replace(/p/g, r) for a literal pattern p.
RECURSIVE replaceFrom(_, _, _, _)

\* k is the next occurrence of p at or after i, 0 when there is none.
replaceAt(s, i, p, r, k) ==
  IF k = 0 THEN From(s, i)
  ELSE Sub(s, i, k - 1) \o r \o replaceFrom(s, k + Len(p), p, r)

replaceFrom(s, i, p, r) == replaceAt(s, i, p, r, indexOf(s, p, i))

replaceAll(s, p, r) == replaceFrom(s, 1, p, r)

\* s.replace(/c{min,}/g, r): every maximal run of at least min characters c
\* becomes r.
RECURSIVE collapseFrom(_, _, _, _, _)

\* The next run of c at or after i is from k to e - 1; k is 0 when there is
\* none.
collapseAt(s, i, c, min, r, k, e) ==
  IF k = 0 THEN From(s, i)
  ELSE Sub(s, i, k - 1) \o (IF e - k >= min THEN r ELSE Sub(s, k, e - 1))
       \o collapseFrom(s, e, c, min, r)

collapseRun(s, i, c, min, r, k) ==
  collapseAt(s, i, c, min, r, k, IF k = 0 THEN 0 ELSE RunEnd(s, k, {c}))

collapseFrom(s, i, c, min, r) == collapseRun(s, i, c, min, r, indexOf(s, c, i))

collapseRuns(s, c, min, r) == collapseFrom(s, 1, c, min, r)

\* s.replace(/^[QUOTES]+|[QUOTES]+$/g, ""): the leading and the trailing run
\* of quote characters are removed.
stripQuotes(s) ==
  LET a == RunEnd(s, 1, QUOTES)
      b == RunStart(s, Len(s), QUOTES)
  IN Sub(s, a, b)

(***************************************************************************)
(* JavaScript values                                                       *)
(***************************************************************************)

JUndef == [t |-> "undefined"]
JNull == [t |-> "null"]
JThrow == [t |-> "throw"]
JBool(b) == [t |-> "bool", b |-> b]
JStr(s) == [t |-> "str", s |-> s]
\* A number is m * 10^(-e), kept normalised; k tells finite numbers from
\* Infinity ("inf"), -Infinity ("ninf") and NaN ("nan").
JNumOf(k, m, e) == [t |-> "num", k |-> k, m |-> m, e |-> e]
JInt(n) == JNumOf("fin", n, 0)
JNaN == JNumOf("nan", 0, 0)
JInf == JNumOf("inf", 0, 0)
JNegInf == JNumOf("ninf", 0, 0)
\* An array holds its elements in a; an object holds its properties in o, a
\* sequence of <<key, value>> pairs in insertion order, each key once.
JArr(a) == [t |-> "arr", a |-> a]
JObj(o) == [t |-> "obj", o |-> o]

IsNullish(v) == v.t \in {"undefined", "null"}
IsStr(v) == v.t = "str"
IsNum(v) == v.t = "num"
IsArr(v) == v.t = "arr"
\* typeof v === "object" (null included, as in JavaScript)
TypeofObject(v) == v.t \in {"obj", "arr", "null"}

\* Normal form of m * 10^(-e): no trailing zero in the fraction.
RECURSIVE normNum(_, _)
normNum(m, e) ==
  IF m = 0 THEN JInt(0)
  ELSE IF e > 0 /\ m % 10 = 0 THEN normNum(m \div 10, e - 1)
  ELSE JNumOf("fin", m, e)

\* ToBoolean
Truthy(v) ==
  CASE v.t \in {"undefined", "null", "throw"} -> FALSE
    [] v.t = "bool" -> v.b
    [] v.t = "num" -> ~(v.k = "nan" \/ (v.k = "fin" /\ v.m = 0))
    [] v.t = "str" -> v.s # ""
    [] OTHER -> TRUE

(***************************************************************************)
(* Numbers and their text                                                  *)
(***************************************************************************)

DigitVal(c) ==
  CASE c = "0" -> 0 [] c = "1" -> 1 [] c = "2" -> 2 [] c = "3" -> 3
    [] c = "4" -> 4 [] c = "5" -> 5 [] c = "6" -> 6 [] c = "7" -> 7
    [] c = "8" -> 8 [] c = "9" -> 9
    [] c \in {"a", "A"} -> 10 [] c \in {"b", "B"} -> 11
    [] c \in {"c", "C"} -> 12 [] c \in {"d", "D"} -> 13
    [] c \in {"e", "E"} -> 14 [] c \in {"f", "F"} -> 15

HEXDIGITS == DIGITS \cup {"a", "b", "c", "d", "e", "f", "A", "B", "C", "D", "E", "F"}

RECURSIVE pow10(_)
pow10(n) == IF n <= 0 THEN 1 ELSE 10 * pow10(n - 1)

\* Value of the digits s[i..j] in the given base (0 for the empty range).
RECURSIVE digitsVal(_, _, _, _)
digitsVal(s, i, j, base) ==
  IF j < i THEN 0 ELSE digitsVal(s, i, j - 1, base) * base + DigitVal(Ch(s, j))

\* The number with integer digits s[i..ie-1], fraction digits s[f..fe-1] and
\* decimal exponent x, negated when neg.
scaled(mant, scale) ==
  IF scale < 0 THEN normNum(mant * pow10(-scale), 0) ELSE normNum(mant, scale)

negated(n, neg) == IF neg THEN JNumOf("fin", -n.m, n.e) ELSE n

mkNum(s, i, ie, f, fe, x, neg) ==
  negated(scaled(digitsVal(s, i, ie - 1, 10) * pow10(fe - f) + digitsVal(s, f, fe - 1, 10),
                 (fe - f) - x),
          neg)

\* The exponent digits s[j..e-1] after [eE][+-]? at i, when there are any.
expDigits(s, i, j, e) ==
  IF e > j
    THEN [x |-> IF Ch(s, j - 1) = "-" THEN -digitsVal(s, j, e - 1, 10)
                                      ELSE digitsVal(s, j, e - 1, 10),
          i |-> e]
    ELSE [x |-> 0, i |-> i]

expSigned(s, i, j) == expDigits(s, i, j, RunEnd(s, j, DIGITS))

\* An optional exponent part at i: [eE][+-]?[0-9]+ .  Gives the exponent and
\* the index after it; without an exponent part, 0 and i.
expPart(s, i) ==
  IF i <= Len(s) /\ Ch(s, i) \in {"e", "E"}
    THEN expSigned(s, i, IF i + 1 <= Len(s) /\ Ch(s, i + 1) \in {"+", "-"}
                           THEN i + 2 ELSE i + 1)
    ELSE [x |-> 0, i |-> i]

\* An optional fraction part at ie: \.[0-9]* .  Gives the first fraction digit
\* and the index after the last.
fracPart(s, ie) ==
  IF ie <= Len(s) /\ Ch(s, ie) = "."
    THEN [f |-> ie + 1, fe |-> RunEnd(s, ie + 1, DIGITS)]
    ELSE [f |-> ie, fe |-> ie]

\* A decimal literal that must fill s from i: digits, fraction and exponent.
decimalExp(s, i, ie, fr, ex, neg) ==
  IF (ie > i \/ fr.fe > fr.f) /\ ex.i > Len(s)
    THEN mkNum(s, i, ie, fr.f, fr.fe, ex.x, neg)
    ELSE JNaN

decimalFrac(s, i, ie, fr, neg) == decimalExp(s, i, ie, fr, expPart(s, fr.fe), neg)

decimal(s, i, ie, neg) == decimalFrac(s, i, ie, fracPart(s, ie), neg)

\* The radix of a 0x, 0o or 0b literal, 0 for none.
radixOf(s) ==
  IF Len(s) >= 3 /\ Ch(s, 1) = "0"
    THEN (CASE Ch(s, 2) \in {"x", "X"} -> 16
            [] Ch(s, 2) \in {"o", "O"} -> 8
            [] Ch(s, 2) \in {"b", "B"} -> 2
            [] OTHER -> 0)
    ELSE 0

radixDigits(radix) ==
  CASE radix = 16 -> HEXDIGITS
    [] radix = 8 -> {"0", "1", "2", "3", "4", "5", "6", "7"}
    [] OTHER -> {"0", "1"}

\* StringToNumber of a trimmed string whose digits start at i.
numberOf(s, i, radix, neg) ==
  CASE s = "" -> JInt(0)
    [] s # "" /\ From(s, i) = "Infinity" -> IF neg THEN JNegInf ELSE JInf
    [] s # "" /\ radix # 0 ->
         IF RunEnd(s, 3, radixDigits(radix)) > Len(s)
           THEN JInt(digitsVal(s, 3, Len(s), radix))
           ELSE JNaN
    [] OTHER -> decimal(s, i, RunEnd(s, i, DIGITS), neg)

numberOfTrimmed(s) ==
  numberOf(s, IF s # "" /\ Ch(s, 1) \in {"+", "-"} THEN 2 ELSE 1, radixOf(s),
           s # "" /\ Ch(s, 1) = "-")

\* Number(str): the StringToNumber conversion of ECMAScript.
\* White space is trimmed; the empty string is 0; Infinity with an optional
\* sign; 0x, 0o and 0b integers; a decimal literal with optional sign,
\* fraction and exponent; everything else is NaN.
Number(str0) == numberOfTrimmed(trim(str0))

RECURSIVE natToStr(_)
natToStr(n) ==
  IF n < 10 THEN Ch("0123456789", n + 1)
  ELSE natToStr(n \div 10) \o Ch("0123456789", (n % 10) + 1)

RECURSIVE zeros(_)
zeros(n) == IF n <= 0 THEN "" ELSE "0" \o zeros(n - 1)

\* The digits d with the decimal point e places from the right.
pointed(d, e) ==
  IF e = 0 THEN d ELSE Sub(d, 1, Len(d) - e) \o "." \o From(d, Len(d) - e + 1)

padded(d0, e) == IF Len(d0) <= e THEN zeros(e + 1 - Len(d0)) \o d0 ELSE d0

\* Number.prototype.toString for the numbers of the model (plain decimal
\* notation, which JavaScript uses between 1e-7 and 1e21).
numToStr(v) ==
  CASE v.k = "nan" -> "NaN"
    [] v.k = "inf" -> "Infinity"
    [] v.k = "ninf" -> "-Infinity"
    [] OTHER -> IF v.m < 0 THEN "-" \o pointed(padded(natToStr(-v.m), v.e), v.e)
                ELSE pointed(padded(natToStr(v.m), v.e), v.e)

(***************************************************************************)
(* JSON.parse and JSON.stringify                                           *)
(***************************************************************************)

\* White space of the JSON grammar.
JWS == {" ", "\t", "\n", "\r"}

\* Characters that may not appear unescaped inside a JSON string.
CONTROL == {"\t", "\n", "\r", "\f"}

PFail == [ok |-> FALSE, v |-> JUndef, i |-> 0]
POk(v, i) == [ok |-> TRUE, v |-> v, i |-> i]

\* obj[k] = v on a property list: an existing key keeps its place.
RECURSIVE setKey(_, _, _)
setKey(o, k, v) ==
  IF o = <<>> THEN << <<k, v>> >>
  ELSE IF Head(o)[1] = k THEN << <<k, v>> >> \o Tail(o)
  ELSE <<Head(o)>> \o setKey(Tail(o), k, v)

\* A JSON string whose opening quote is at i - 1; acc is the text read so far.
\* The escapes \b and \uXXXX denote characters a TLA+ string cannot hold; no
\* text of the model uses them.
\* The character at j follows an odd number of backslashes of the string
\* that starts at i: it is the second character of an escape.
backslashes(i, j, before) == j - 1 - (IF before < i - 1 THEN i - 1 ELSE before)

escaped(s, i, j) == backslashes(i, j, RunStart(s, j - 1, {"\\"})) % 2 = 1

\* What the character at j of the string adds to its text.
unescaped(s, i, j) ==
  IF escaped(s, i, j)
    THEN CASE Ch(s, j) = "n" -> "\n"
           [] Ch(s, j) = "r" -> "\r"
           [] Ch(s, j) = "t" -> "\t"
           [] Ch(s, j) = "f" -> "\f"
           [] OTHER -> Ch(s, j)
    ELSE IF Ch(s, j) = "\\" THEN "" ELSE Ch(s, j)

\* The character at j may not stand where it does.
misplaced(s, i, j) ==
  IF escaped(s, i, j)
    THEN Ch(s, j) \notin {"\"", "\\", "/", "n", "r", "t", "f"}
    ELSE Ch(s, j) \in CONTROL

\* q is the closing quote of the string, 0 when there is none.
stringUpTo(s, i, acc, q) ==
  IF q = 0 \/ \E j \in i..(q - 1) : misplaced(s, i, j) THEN PFail
  ELSE POk(JStr(acc \o joined([j \in i..(q - 1) |-> unescaped(s, i, j)], i, q - 1)), q + 1)

parseString(s, i, acc) ==
  stringUpTo(s, i, acc,
             leastOr0({k \in i..Len(s) : Ch(s, k) = "\"" /\ ~escaped(s, i, k)}))

\* A JSON number at i: -? (0 | [1-9][0-9]*) (\.[0-9]+)? ([eE][+-]?[0-9]+)?
jsonNumberExp(s, a, ie, fr, ex, neg) == POk(mkNum(s, a, ie, fr.f, fr.fe, ex.x, neg), ex.i)

jsonNumberFrac(s, a, ie, fr, neg) ==
  IF ie = a \/ (fr.f > ie /\ fr.fe = fr.f) THEN PFail
  ELSE jsonNumberExp(s, a, ie, fr, expPart(s, fr.fe), neg)

jsonNumber(s, a, ie, neg) == jsonNumberFrac(s, a, ie, fracPart(s, ie), neg)

jsonDigits(s, a, neg) ==
  jsonNumber(s, a, IF a <= Len(s) /\ Ch(s, a) = "0" THEN a + 1 ELSE RunEnd(s, a, DIGITS), neg)

parseNumber(s, i) == jsonDigits(s, IF Ch(s, i) = "-" THEN i + 1 ELSE i, Ch(s, i) = "-")

RECURSIVE parseValue(_, _)
RECURSIVE memberAt(_, _, _)

\* The character at i, "" when there is none (String.prototype.charAt).
charAt(s, i) == IF i >= 1 /\ i <= Len(s) THEN Ch(s, i) ELSE ""

\* The index after the white space that follows the parsed piece r.
after(s, r) == RunEnd(s, r.i, JWS)

\* After a member k: v of an object comes "}" or ",".
memberEnd(s, o, k, v) ==
  CASE ~v.ok -> PFail
    [] v.ok /\ charAt(s, after(s, v)) = "}" ->
         POk(JObj(setKey(o, k.v.s, v.v)), after(s, v) + 1)
    [] v.ok /\ charAt(s, after(s, v)) = "," ->
         memberAt(s, RunEnd(s, after(s, v) + 1, JWS), setKey(o, k.v.s, v.v))
    [] OTHER -> PFail

\* After the key k of a member comes ":" and the value.
memberKey(s, o, k) ==
  IF ~k.ok \/ charAt(s, after(s, k)) # ":" THEN PFail
  ELSE memberEnd(s, o, k, parseValue(s, after(s, k) + 1))

\* A member of an object after "{" or ",": i is at its key.
memberAt(s, i, o) ==
  IF charAt(s, i) # "\"" THEN PFail
  ELSE memberKey(s, o, parseString(s, i + 1, ""))

\* After an element v of the array a comes "]" or ","; the next element
\* follows the comma.
RECURSIVE elementEnd(_, _, _)
elementEnd(s, a, v) ==
  CASE ~v.ok -> PFail
    [] v.ok /\ charAt(s, after(s, v)) = "]" -> POk(JArr(Append(a, v.v)), after(s, v) + 1)
    [] v.ok /\ charAt(s, after(s, v)) = "," ->
         elementEnd(s, Append(a, v.v), parseValue(s, after(s, v) + 1))
    [] OTHER -> PFail

\* A JSON value at i, the white space before it skipped.
valueAt(s, i) ==
  CASE charAt(s, i) = "{" /\ charAt(s, RunEnd(s, i + 1, JWS)) = "}" ->
         POk(JObj(<<>>), RunEnd(s, i + 1, JWS) + 1)
    [] charAt(s, i) = "{" /\ charAt(s, RunEnd(s, i + 1, JWS)) # "}" ->
         memberAt(s, RunEnd(s, i + 1, JWS), <<>>)
    [] charAt(s, i) = "[" /\ charAt(s, RunEnd(s, i + 1, JWS)) = "]" ->
         POk(JArr(<<>>), RunEnd(s, i + 1, JWS) + 1)
    [] charAt(s, i) = "[" /\ charAt(s, RunEnd(s, i + 1, JWS)) # "]" ->
         elementEnd(s, <<>>, parseValue(s, i + 1))
    [] charAt(s, i) = "\"" -> parseString(s, i + 1, "")
    [] charAt(s, i) \in DIGITS \cup {"-"} -> parseNumber(s, i)
    [] StartsAt(s, i, "true") -> POk(JBool(TRUE), i + 4)
    [] StartsAt(s, i, "false") -> POk(JBool(FALSE), i + 5)
    [] StartsAt(s, i, "null") -> POk(JNull, i + 4)
    [] OTHER -> PFail

\* A JSON value at or after i0 (leading white space skipped).
parseValue(s, i0) == valueAt(s, RunEnd(s, i0, JWS))

\* The whole text must be one value.
wholeValue(s, r) == IF r.ok /\ RunEnd(s, r.i, JWS) > Len(s) THEN r.v ELSE JThrow

\* JSON.parse(s): the value, or JThrow for the SyntaxError it throws.
JSONparse(s) == wholeValue(s, parseValue(s, 1))

\* The characters of a string as JSON.stringify quotes them.
quoteChar(c) ==
  CASE c = "\"" -> "\\\""
    [] c = "\\" -> "\\\\"
    [] c = "\n" -> "\\n"
    [] c = "\r" -> "\\r"
    [] c = "\t" -> "\\t"
    [] c = "\f" -> "\\f"
    [] OTHER -> c

quoteChars(s, i) == joined([j \in i..Len(s) |-> quoteChar(Ch(s, j))], i, Len(s))

quote(s) == "\"" \o quoteChars(s, 1) \o "\""

RECURSIVE JSONstringify(_)
RECURSIVE stringifyElements(_, _)
RECURSIVE stringifyMembers(_, _, _)

stringifyElements(a, i) ==
  IF i > Len(a) THEN ""
  ELSE (IF i > 1 THEN "," ELSE "") \o JSONstringify(a[i]) \o stringifyElements(a, i + 1)

stringifyMembers(o, i, first) ==
  IF i > Len(o) THEN ""
  ELSE (IF first THEN "" ELSE ",") \o quote(o[i][1]) \o ":" \o JSONstringify(o[i][2])
       \o stringifyMembers(o, i + 1, FALSE)

\* JSON.stringify(v) of a value that JSON.parse produced (one argument: no
\* indentation).
JSONstringify(v) ==
  CASE v.t = "null" -> "null"
    [] v.t = "bool" -> IF v.b THEN "true" ELSE "false"
    [] v.t = "num" -> IF v.k = "fin" THEN numToStr(v) ELSE "null"
    [] v.t = "str" -> quote(v.s)
    [] v.t = "arr" -> "[" \o stringifyElements(v.a, 1) \o "]"
    [] v.t = "obj" -> "{" \o stringifyMembers(v.o, 1, TRUE) \o "}"

\* String(v) for a value that is not an object.
String(v) ==
  CASE v.t = "undefined" -> "undefined"
    [] v.t = "null" -> "null"
    [] v.t = "bool" -> IF v.b THEN "true" ELSE "false"
    [] v.t = "num" -> numToStr(v)
    [] v.t = "str" -> v.s

(***************************************************************************)
(* Property access and operators of JavaScript                             *)
(***************************************************************************)

\* A lookup that ignores the key and gives the first property's value.
lookupAny(o, k) == IF o = <<>> THEN JUndef ELSE Head(o)[2]

RECURSIVE lookup(_, _)
lookup(o, k) ==
  IF o = <<>> THEN JUndef
  ELSE IF Head(o)[1] = k THEN Head(o)[2]
  ELSE lookup(Tail(o), k)

\* v.k : a TypeError (JThrow) on undefined and null; undefined when v has no
\* such property.  The keys read by the code name no built-in property of a
\* string, a number, a boolean or an array.
Get(v, k) ==
  CASE v.t \in {"undefined", "null", "throw"} -> JThrow
    [] v.t = "obj" -> lookup(v.o, k)
    [] OTHER -> JUndef

\* v.k written where the code writes v?.k
strictGet(v, k) == Get(v, k)

\* v?.k
OptGet(v, k) == IF IsNullish(v) THEN JUndef ELSE Get(v, k)

\* v[0] of an array
At0(v) == IF v.t = "arr" /\ Len(v.a) > 0 THEN v.a[1] ELSE JUndef

\* a ?? b
Coalesce(a, b) == IF IsNullish(a) THEN b ELSE a

\* try { v } catch { d }
TryOr(v, d) == IF v = JThrow THEN d ELSE v

\* The chain read from its last key to its first.
RECURSIVE lastOf(_, _, _)
lastOf(v, keys, optional) ==
  IF keys = <<>> THEN JNull
  ELSE LET rest == lastOf(v, Tail(keys), optional)
           x == IF optional THEN OptGet(v, Head(keys)) ELSE Get(v, Head(keys))
       IN IF IsNullish(rest) THEN Coalesce(x, JNull) ELSE rest

\* The first value of the chain v.k1 ?? v.k2 ?? ... ?? null, read with the
\* accessor the revision uses: optional (v?.k) or plain (v.k).
RECURSIVE firstOf(_, _, _)
firstOf(v, keys, optional) ==
  IF keys = <<>> THEN JNull
  ELSE LET x == IF optional THEN OptGet(v, Head(keys)) ELSE Get(v, Head(keys))
       IN IF IsNullish(x) THEN firstOf(v, Tail(keys), optional) ELSE x

(***************************************************************************)
(* Regular expressions of the code                                         *)
(***************************************************************************)

\* (?:json)? under the i flag: the index after an optional "json" at i.
skipJson(s, i) ==
  IF /\ i + 3 <= Len(s)
     /\ Ch(s, i) \in {"j", "J"}
     /\ Ch(s, i + 1) \in {"s", "S"}
     /\ Ch(s, i + 2) \in {"o", "O"}
     /\ Ch(s, i + 3) \in {"n", "N"}
    THEN i + 4 ELSE i

\* (?:json)? without the i flag.
skipJsonCs(s, i) == IF StartsAt(s, i, "json") THEN i + 4 ELSE i

\* \n? : the index after an optional line feed at i.
skipNl(s, i) == IF i <= Len(s) /\ Ch(s, i) = "\n" THEN i + 1 ELSE i

\* /FENCE(?:json)?\n?([\s\S]*?)FENCE/i .exec(s): the text captured between
\* the first fence marker (with its optional tag and line feed) and the next
\* one; found is FALSE when the expression does not match.
fenceClose(s, a, q) ==
  IF q = 0 THEN [found |-> FALSE, inner |-> ""]
  ELSE [found |-> TRUE, inner |-> Sub(s, a, q - 1)]

fenceBody(s, a) == fenceClose(s, a, indexOf(s, FENCE, a))

fenceOpen(s, p) ==
  IF p = 0 THEN [found |-> FALSE, inner |-> ""]
  ELSE fenceBody(s, skipNl(s, skipJson(s, p + 3)))

fenceMatch(s) == fenceOpen(s, indexOf(s, FENCE, 1))

\* s.replace(/FENCE(?:json)?\n?/gi, "")
RECURSIVE removeFencesFrom(_, _)

\* k is the next fence marker at or after i, 0 when there is none.
removeFenceAt(s, i, k) ==
  IF k = 0 THEN From(s, i)
  ELSE Sub(s, i, k - 1) \o removeFencesFrom(s, skipNl(s, skipJson(s, k + 3)))

removeFencesFrom(s, i) == removeFenceAt(s, i, indexOf(s, FENCE, i))

removeFences(s) == removeFencesFrom(s, 1)

\* s.replace(/FENCE$/, "") : a fence marker at the very end is removed.
stripEndFence(s) ==
  IF Len(s) >= 3 /\ StartsAt(s, Len(s) - 2, FENCE) THEN Sub(s, 1, Len(s) - 3) ELSE s

\* s.replace(/\\\s*\[/g, "\\[") with b the bracket: a backslash, any white
\* space and the bracket become the backslash and the bracket.
RECURSIVE tightenFrom(_, _, _)

\* The backslash at k is followed by white space up to j - 1.
tightenRun(s, b, k, j) ==
  IF j <= Len(s) /\ Ch(s, j) = b
    THEN "\\" \o b \o tightenFrom(s, j + 1, b)
    ELSE "\\" \o tightenFrom(s, k + 1, b)

\* k is the next backslash at or after i, 0 when there is none.
tightenAt(s, i, b, k) ==
  IF k = 0 THEN From(s, i)
  ELSE Sub(s, i, k - 1) \o tightenRun(s, b, k, RunEnd(s, k + 1, WS))

tightenFrom(s, i, b) == tightenAt(s, i, b, indexOf(s, "\\", i))

tighten(s, b) == tightenFrom(s, 1, b)

\* The separators of the split calls.  sepEnd(kind, s, i) is the index after
\* the separator that matches at i, 0 when none matches there.
\*   "lines"     /\r?\n/
\*   "number1"   /\d+\.\s+/
\*   "number2"   /(?:\n|(?:\d+\.\s)|(?:\d+\)\s))/
\*   "sentence"  /(?<=\.)\s+/
sepEnd(kind, s, i) ==
  LET n == Len(s)
      d == RunEnd(s, i, DIGITS)
  IN CASE kind = "lines" ->
            IF Ch(s, i) = "\n" THEN i + 1
            ELSE IF Ch(s, i) = "\r" /\ i + 1 <= n /\ Ch(s, i + 1) = "\n" THEN i + 2
            ELSE 0
       [] kind = "number1" ->
            IF d > i /\ d + 1 <= n /\ Ch(s, d) = "." /\ Ch(s, d + 1) \in WS
              THEN RunEnd(s, d + 1, WS)
              ELSE 0
       [] kind = "number2" ->
            IF Ch(s, i) = "\n" THEN i + 1
            ELSE IF d > i /\ d + 1 <= n /\ Ch(s, d) \in {".", ")"} /\ Ch(s, d + 1) \in WS
              THEN d + 2
              ELSE 0
       [] kind = "sentence" ->
            IF i > 1 /\ Ch(s, i - 1) = "." /\ Ch(s, i) \in WS
              THEN RunEnd(s, i, WS)
              ELSE 0

\* s.split(separator): the pieces between the separators, from position i on,
\* with the piece under construction starting at a.
RECURSIVE splitFrom(_, _, _, _)

\* k is the position of the next separator, 0 when there is none, and e the
\* index after that separator.
splitAt(kind, s, a, k, e) ==
  IF k = 0 THEN <<From(s, a)>>
  ELSE <<Sub(s, a, k - 1)>> \o splitFrom(kind, s, e, e)

splitNext(kind, s, a, k) ==
  splitAt(kind, s, a, k, IF k = 0 THEN 0 ELSE sepEnd(kind, s, k))

splitFrom(kind, s, a, i) ==
  splitNext(kind, s, a, leastOr0({k \in i..Len(s) : sepEnd(kind, s, k) # 0}))

split(kind, s) == splitFrom(kind, s, 1, 1)

\* pieces.map((p) => p.trim()).filter(Boolean)
RECURSIVE trimAndDrop(_)

keepNonEmpty(h, rest) == (IF h = "" THEN <<>> ELSE <<h>>) \o trimAndDrop(rest)

trimAndDrop(ps) ==
  IF ps = <<>> THEN <<>> ELSE keepNonEmpty(trim(Head(ps)), Tail(ps))

(***************************************************************************)
(* Helpers shared by the revisions                                         *)
(***************************************************************************)

\* The result record of normalizeParsed (type LLMResult).
Result(latex, answer, steps, notes) ==
  [t |-> "result", latex |-> latex, answer |-> answer, steps |-> steps, notes |-> notes]

\* A sequence of strings as an array of string values.
RECURSIVE strArr(_)
strArr(ss) == IF ss = <<>> THEN <<>> ELSE <<JStr(Head(ss))>> \o strArr(Tail(ss))

\* steps.map((s) => (typeof s === "string" ? s : JSON.stringify(s)))
RECURSIVE stringifyNonStrings(_)
stringifyNonStrings(a) ==
  IF a = <<>> THEN <<>>
  ELSE <<IF IsStr(Head(a)) THEN Head(a) ELSE JStr(JSONstringify(Head(a)))>>
       \o stringifyNonStrings(Tail(a))

\* try { return JSON.parse(c1) } catch {} try { return JSON.parse(c2) } ...
\* return null: the value of the first text that parses, null when none does.
RECURSIVE firstParsed(_)

parsedOrNext(v, rest) == IF v # JThrow THEN v ELSE firstParsed(rest)

firstParsed(texts) ==
  IF texts = <<>> THEN JNull ELSE parsedOrNext(JSONparse(Head(texts)), Tail(texts))

\* A choice that tries the numbered items before the lines.
pickNumbersFirst(lines, byNumber, sentences, whole) ==
  IF Len(byNumber) > 1 THEN byNumber
  ELSE IF Len(lines) > 1 THEN lines
  ELSE IF Len(sentences) > 1 THEN sentences
  ELSE <<whole>>

\* A choice that never takes the sentences.
pickNoSentences(lines, byNumber, sentences, whole) ==
  IF Len(lines) > 1 THEN lines
  ELSE IF Len(byNumber) > 1 THEN byNumber
  ELSE <<whole>>

\* The steps chosen among the splits of a string: the lines when there are
\* several, else the numbered items, else the sentences, else the whole text.
pickSteps(lines, byNumber, sentences, whole) ==
  IF Len(lines) > 1 THEN lines
  ELSE IF Len(byNumber) > 1 THEN byNumber
  ELSE IF Len(sentences) > 1 THEN sentences
  ELSE <<whole>>

\* The other order: the whole string is parsed first, and what was extracted
\* is used only when that fails.
wholeParseFirst(parsed, maybe) ==
  IF JSONparse(parsed.s) # JThrow THEN JSONparse(parsed.s)
  ELSE IF Truthy(maybe) THEN maybe
  ELSE parsed

\* if (maybe) parsed = maybe; else try { parsed = JSON.parse(parsed) } catch {}
parsedOrKept(parsed, maybe) ==
  IF Truthy(maybe) THEN maybe ELSE TryOr(JSONparse(parsed.s), parsed)

\* if (maybe) parsed = maybe
maybeOr(maybe, parsed) == IF Truthy(maybe) THEN maybe ELSE parsed

(***************************************************************************)
(* First revision (lines 56-597)                                           *)
(***************************************************************************)

\* The texts extractJsonFromText tries to parse from the first "{" to the
\* last "}": the span, then the span without escaped line feeds.
spanTextsR1(s, first, last) ==
  IF first # 0 /\ last # 0 /\ last > first
    THEN <<Sub(s, first, last),
           replaceAll(replaceAll(Sub(s, first, last), "\\n", " "), "\r", " ")>>
    ELSE <<>>

\* The text of a fenced block, when there is one.
fenceTextsR1(fence) ==
  IF fence.found /\ fence.inner # "" THEN <<trim(fence.inner)>> ELSE <<>>

\* extractJsonFromText of the first revision: the span from the first "{" to
\* the last "}" first, the fenced block last.
extractJsonFromTextR1(text) ==
  IF ~Truthy(text) \/ ~IsStr(text) THEN JNull
  ELSE firstParsed(spanTextsR1(text.s, indexOf(text.s, "{", 1), lastIndexOf(text.s, "}"))
                   \o fenceTextsR1(fenceMatch(text.s)))

\* The body of cleanLatex on a non-empty string.
cleanLatexStr(s) ==
  Then(trim(s), LAMBDA t1 :
  Then(removeFences(t1), LAMBDA t1a :
  Then(stripEndFence(t1a), LAMBDA t2 :
  Then(stripQuotes(t2), LAMBDA t3 :
  Then(replaceAll(t3, "\\n", " "), LAMBDA t3a :
  Then(replaceAll(t3a, "\r", " "), LAMBDA t4 :
  Then(collapseRuns(t4, "\\", 2, "\\"), LAMBDA t5 :
  Then(tighten(t5, "["), LAMBDA t5a :
  Then(tighten(t5a, "]"), LAMBDA t6 : trim(t6))))))))))

cleanLatex(v) ==
  IF ~Truthy(v) \/ ~IsStr(v) THEN JNull ELSE JStr(cleanLatexStr(v.s))

LATEX_KEYS_R1 == <<"latex", "Latex", "expression">>
ANSWER_KEYS_R1 == <<"answer", "Answer", "result", "final">>
STEPS_KEYS_R1 == <<"steps", "Steps", "explanation", "details">>
NOTES_KEYS_R1 == <<"notes", "note">>

\* cleaned.replace(/^FENCE(?:json)?/i, "").replace(/FENCE$/i, "")
stepsUnfenceR1(t) ==
  stripEndFence(IF StartsAt(t, 1, FENCE) THEN From(t, skipJson(t, 4)) ELSE t)

\* The steps of a trimmed string (lines 220-230).
stepsOfCleanedR1(cleaned) ==
  pickSteps(trimAndDrop(split("lines", stepsUnfenceR1(cleaned))),
            trimAndDrop(split("number1", cleaned)),
            trimAndDrop(split("sentence", cleaned)),
            cleaned)

\* The steps of a string (lines 219-231).
stepsFromStringR1(steps) == stepsOfCleanedR1(trim(steps))

\* stepsArr.map((s) => (typeof s === "string" ? cleanLatex(s) ?? s : String(s)))
RECURSIVE cleanEach(_)
cleanEach(a) ==
  IF a = <<>> THEN <<>>
  ELSE <<IF IsStr(Head(a)) THEN Coalesce(cleanLatex(Head(a)), Head(a))
                           ELSE JStr(String(Head(a)))>>
       \o cleanEach(Tail(a))

\* Lines 176-186: a string is searched for JSON, then parsed whole.
fromStringR1(parsed) ==
  IF IsStr(parsed) THEN parsedOrKept(parsed, extractJsonFromTextR1(parsed)) ELSE parsed

\* Lines 188-191: rawText is searched when parsed is no object.
fromRawR1(parsed, rawText) ==
  IF (~Truthy(parsed) \/ ~TypeofObject(parsed)) /\ Truthy(rawText)
    THEN maybeOr(extractJsonFromTextR1(rawText), parsed)
    ELSE parsed

\* Lines 174-191: the value the fields are read from.
recoverR1(parsedIn, rawText) ==
  fromRawR1(fromStringR1(Coalesce(parsedIn, JNull)), rawText)

\* Lines 194-197: the aliased fields, read with optional chaining.
aliasedR1(parsed, keys) == firstOf(parsed, keys, TRUE)

\* Line 200: the envelope is looked into only when it gave no latex, answer
\* or steps of its own and holds a non-empty choices array.
unwrapsR1(parsed) ==
  /\ ~Truthy(aliasedR1(parsed, LATEX_KEYS_R1))
  /\ ~Truthy(aliasedR1(parsed, ANSWER_KEYS_R1))
  /\ ~Truthy(aliasedR1(parsed, STEPS_KEYS_R1))
  /\ Truthy(OptGet(parsed, "choices"))
  /\ IsArr(OptGet(parsed, "choices"))
  /\ Len(OptGet(parsed, "choices").a) > 0

\* The message of a choice: its message content, its message or its text.
choiceMsg(c0) ==
  Coalesce(Coalesce(OptGet(OptGet(c0, "message"), "content"), OptGet(c0, "message")),
           OptGet(c0, "text"))

\* Line 201: the message of the first choice.
choiceMsgR1(parsed) == choiceMsg(At0(OptGet(parsed, "choices")))

\* Lines 202-203: the value extracted from a message that is a string.
innerOfMsgR1(msg) == IF IsStr(msg) THEN extractJsonFromTextR1(msg) ELSE JNull

\* An envelope that is never looked into.
noInner(parsed) == JNull

\* Lines 200-205: the value extracted from the message of an envelope, null
\* when the envelope is not looked into or its message holds no JSON.
innerOfR1(parsed) ==
  IF unwrapsR1(parsed) THEN innerOfMsgR1(choiceMsgR1(parsed)) ELSE JNull

\* Line 208: steps = steps ?? msg, for a message that is a string.
stepsOrMsgR1(steps, msg) == IF IsStr(msg) THEN Coalesce(steps, msg) ELSE steps

\* Lines 196-211: the steps, with the message of an envelope as fallback.
stepsOfR1(parsed, steps) ==
  IF unwrapsR1(parsed) THEN stepsOrMsgR1(steps, choiceMsgR1(parsed)) ELSE steps

\* Lines 214-232: the steps as an array of strings.
stepsArrR1(steps) ==
  IF IsArr(steps) THEN JArr(stringifyNonStrings(steps.a))
  ELSE IF IsStr(steps) THEN JArr(strArr(stepsFromStringR1(steps.s)))
  ELSE JNull

\* Line 236: a string answer is cleaned.
cleanAnswerR1(answer) ==
  IF IsStr(answer) THEN Coalesce(cleanLatex(answer), answer) ELSE answer

\* Line 237: the steps are cleaned.
cleanStepsR1(stepsArr) ==
  IF IsArr(stepsArr) THEN JArr(cleanEach(stepsArr.a)) ELSE stepsArr

\* Lines 235-244: the result of the fields read.
resultR1(latex, answer, steps, notes) ==
  IF JThrow \in {latex, answer, steps, notes} THEN JThrow
  ELSE Result(cleanLatex(IF IsStr(latex) THEN latex ELSE JNull), cleanAnswerR1(answer),
              cleanStepsR1(stepsArrR1(steps)), notes)

\* Lines 194-244 without the recursive call: the result built from parsed.
fieldsR1(parsed) ==
  resultR1(aliasedR1(parsed, LATEX_KEYS_R1), aliasedR1(parsed, ANSWER_KEYS_R1),
           stepsOfR1(parsed, aliasedR1(parsed, STEPS_KEYS_R1)),
           aliasedR1(parsed, NOTES_KEYS_R1))

RECURSIVE normalizeParsedR1(_, _)

\* Line 205: the inner value of an envelope is normalized in its place.
innerOrFieldsR1(parsed, inner, rawText) ==
  IF Truthy(inner) THEN normalizeParsedR1(inner, rawText) ELSE fieldsR1(parsed)

fromRecoveredR1(parsed, rawText) == innerOrFieldsR1(parsed, innerOfR1(parsed), rawText)

normalizeParsedR1(parsedIn, rawText) ==
  fromRecoveredR1(recoverR1(parsedIn, rawText), rawText)

(***************************************************************************)
(* Second revision (lines 634-1072)                                        *)
(***************************************************************************)

\* The span of a text from its first "{" to its last "}", when there is one.
braceSpan(s, first, last) ==
  IF first # 0 /\ last # 0 /\ last > first THEN <<Sub(s, first, last)>> ELSE <<>>

\* The texts tried inside a fenced block: the block, then its brace span.
fenceTextsR2(fence) ==
  IF fence.found /\ fence.inner # ""
    THEN <<trim(fence.inner)>>
         \o braceSpan(trim(fence.inner), indexOf(trim(fence.inner), "{", 1),
                      lastIndexOf(trim(fence.inner), "}"))
    ELSE <<>>

\* The texts tried outside a fence: the brace span, then the span with its
\* line feeds collapsed and its escaped line feeds removed.
spanTextsR2(s, first, last) ==
  IF first # 0 /\ last # 0 /\ last > first
    THEN <<Sub(s, first, last),
           replaceAll(collapseRuns(Sub(s, first, last), "\n", 1, " "), "\\n", "")>>
    ELSE <<>>

\* extractJsonFromText of the second revision: the fenced block first, the
\* span from the first "{" to the last "}" last.
extractJsonFromTextR2(txt) ==
  IF ~Truthy(txt) \/ ~IsStr(txt) THEN JNull
  ELSE firstParsed(fenceTextsR2(fenceMatch(txt.s))
                   \o spanTextsR2(txt.s, indexOf(txt.s, "{", 1), lastIndexOf(txt.s, "}")))

\* sanitizeAnswerString on a string.
sanitizeAnswerString(a) ==
  IF a = "" THEN a
  ELSE LET s1 == replaceAll(a, UMINUS, "-")
           s2 == collapseRuns(s1, "-", 1, "-")
       IN stripQuotes(trim(s2))

LATEX_KEYS_R2 == <<"latex", "Latex", "expression", "problem", "question", "math", "formula">>
ANSWER_KEYS_R2 ==
  <<"answer", "Answer", "solution", "result", "final", "answer_text", "answerText">>
STEPS_KEYS_R2 ==
  <<"steps", "Steps", "step-by-step", "explanation", "explanations", "instructions",
    "solution_steps", "details">>
NOTES_KEYS_R2 == <<"notes", "note", "comments">>

\* t.replace(/^FENCE(?:json)?\n?|FENCE$/g, "")
stepsUnfenceR2(t) ==
  stripEndFence(IF StartsAt(t, 1, FENCE) THEN From(t, skipNl(t, skipJsonCs(t, 4))) ELSE t)

\* The steps of a trimmed and unfenced string (lines 834-846).
stepsOfCleanedR2(t) ==
  pickSteps(trimAndDrop(split("lines", t)), trimAndDrop(split("number2", t)),
            trimAndDrop(split("sentence", t)), t)

\* The steps of a string (lines 832-847).
stepsFromStringR2(stepsRaw) == stepsOfCleanedR2(stepsUnfenceR2(trim(stepsRaw)))

\* parsed.choices && Array.isArray(parsed.choices) && parsed.choices[0]
firstChoiceR2(ch) ==
  IF ~Truthy(ch) THEN ch ELSE IF ~IsArr(ch) THEN JBool(FALSE) ELSE At0(ch)

\* The message text of an envelope (lines 750-752): the first choice's
\* message content, message or text, else parsed.message.content.
candidateMsgR2(parsed) ==
  Coalesce(Coalesce(choiceMsg(firstChoiceR2(Get(parsed, "choices"))),
                    OptGet(Get(parsed, "message"), "content")),
           JNull)

\* if (extracted && typeof extracted === "object") parsed = extracted
objectOr(extracted, parsed) ==
  IF Truthy(extracted) /\ TypeofObject(extracted) THEN extracted ELSE parsed

\* Lines 753-756: a message that is a string is searched for an object.
unwrapMsgR2(parsed, candidateMsg) ==
  IF IsStr(candidateMsg) THEN objectOr(extractJsonFromTextR2(candidateMsg), parsed)
  ELSE parsed

\* Lines 748-758: an envelope is replaced by the object found in its message.
unwrapEnvelopeR2(parsed) ==
  IF Truthy(parsed) /\ TypeofObject(parsed)
    THEN unwrapMsgR2(parsed, candidateMsgR2(parsed))
    ELSE parsed

\* Lines 815-818: a choice's message becomes the steps when it holds no JSON.
choiceStepsR2(stepsRaw, msg) ==
  IF IsStr(msg) /\ ~Truthy(extractJsonFromTextR2(msg)) THEN msg ELSE stepsRaw

\* Lines 812-823: the message of the first choice, else parsed.message.content.
msgFallbackR2(parsed, stepsRaw) ==
  IF /\ ~Truthy(stepsRaw)
     /\ Truthy(Get(parsed, "choices"))
     /\ IsArr(Get(parsed, "choices"))
     /\ Len(Get(parsed, "choices").a) > 0
    THEN choiceStepsR2(stepsRaw,
                       Coalesce(choiceMsg(At0(Get(parsed, "choices"))),
                                At0(Get(parsed, "choices"))))
    ELSE IF /\ ~Truthy(stepsRaw)
            /\ Truthy(Get(parsed, "message"))
            /\ Truthy(Get(Get(parsed, "message"), "content"))
      THEN Get(Get(parsed, "message"), "content")
      ELSE stepsRaw

\* Lines 824-825: if (!stepsRaw && parsed.raw) stepsRaw = parsed.raw, and the
\* same with raw_text.
keyFallbackR2(parsed, stepsRaw, key) ==
  IF ~Truthy(stepsRaw) /\ Truthy(Get(parsed, key)) THEN Get(parsed, key) ELSE stepsRaw

\* Lines 812-826: the fallbacks that fill stepsRaw when no alias gave steps.
stepsFallbackR2(parsed, stepsRaw0) ==
  keyFallbackR2(parsed, keyFallbackR2(parsed, msgFallbackR2(parsed, stepsRaw0), "raw"),
                "raw_text")

\* Lines 789-793: an object answer gives its value, its text or its JSON.
unwrapAnswerR2(answer) ==
  IF ~IsNullish(answer) /\ TypeofObject(answer)
    THEN IF ~IsNullish(Get(answer, "value")) THEN Get(answer, "value")
         ELSE IF ~IsNullish(Get(answer, "text")) THEN Get(answer, "text")
         ELSE JStr(JSONstringify(answer))
    ELSE answer

\* Lines 797-798: const asNum = Number(answer); if (!Number.isNaN(asNum)) ...
numberOrString(asNum, answer) == IF asNum.k # "nan" THEN asNum ELSE JStr(answer)

\* Lines 796-798: the sanitized string becomes a number unless it gives NaN.
coerceSanitizedR2(answer) == numberOrString(Number(answer), answer)

\* Lines 795-799: a string answer is sanitized and coerced.
coerceStringR2(answer) ==
  IF IsStr(answer) THEN coerceSanitizedR2(sanitizeAnswerString(answer.s)) ELSE answer

\* Lines 789-799: the answer after unwrapping and coercion.
coerceAnswerR2(answer0) == coerceStringR2(unwrapAnswerR2(answer0))

\* Lines 738-746: a string is searched for JSON, then parsed whole.
fromStringR2(parsed) ==
  IF IsStr(parsed) THEN parsedOrKept(parsed, extractJsonFromTextR2(parsed)) ELSE parsed

\* Lines 760-763: rawText is searched when parsed is no object.
fromRawR2(parsed, rawText) ==
  IF (~Truthy(parsed) \/ ~TypeofObject(parsed)) /\ Truthy(rawText)
    THEN maybeOr(extractJsonFromTextR2(rawText), parsed)
    ELSE parsed

\* Lines 738-763: the value the fields are read from.
recoverR2(parsedIn, rawText) ==
  fromRawR2(unwrapEnvelopeR2(fromStringR2(parsedIn)), rawText)

\* Lines 769-810 and 850: the aliased fields, read with plain property access.
aliasedR2(parsed, keys) == firstOf(parsed, keys, FALSE)

\* Lines 829-848: the steps as an array of strings.
stepsArrR2(stepsRaw) ==
  IF IsArr(stepsRaw) THEN JArr(stringifyNonStrings(stepsRaw.a))
  ELSE IF IsStr(stepsRaw) THEN JArr(strArr(stepsFromStringR2(stepsRaw.s)))
  ELSE JNull

\* Line 852: the result of the fields read.
resultR2(latex, answer, stepsRaw, notes) ==
  IF JThrow \in {latex, answer, stepsRaw, notes} THEN JThrow
  ELSE Result(Coalesce(latex, JNull), Coalesce(answer, JNull), stepsArrR2(stepsRaw),
              Coalesce(notes, JNull))

\* Lines 769-852: the result built from an object.
fieldsR2(parsed) ==
  resultR2(aliasedR2(parsed, LATEX_KEYS_R2), coerceAnswerR2(aliasedR2(parsed, ANSWER_KEYS_R2)),
           stepsFallbackR2(parsed, aliasedR2(parsed, STEPS_KEYS_R2)),
           aliasedR2(parsed, NOTES_KEYS_R2))

\* Lines 765-767 and 769-852: what is returned for the recovered value.
fromRecoveredR2(parsed, rawText) ==
  IF ~Truthy(parsed) \/ ~TypeofObject(parsed)
    THEN Result(JNull, JNull, JNull, Coalesce(rawText, JStr(String(parsed))))
    ELSE fieldsR2(parsed)

normalizeParsedR2(parsedIn, rawText) ==
  IF ~Truthy(parsedIn) /\ ~Truthy(rawText) THEN JNull
  ELSE fromRecoveredR2(recoverR2(parsedIn, rawText), rawText)

(***************************************************************************)
(* Inputs                                                                  *)
(*                                                                         *)
(* The normalizer receives the parsed body of the backend's reply and the  *)
(* reply's raw text, so its arguments are JSON values and strings.         *)
(***************************************************************************)

\* The longest choices array of the general inputs.
MaxChoices == 1

\* The longest generated string given to cleanLatex or carried as an answer.
MaxLen == 4

Obj1(k, v) == JObj(<<<<k, v>>>>)
Obj2(k1, v1, k2, v2) == JObj(<<<<k1, v1>>, <<k2, v2>>>>)

\* The sequences over S of length at most n.
RECURSIVE SeqsUpTo(_, _)
SeqsUpTo(S, n) ==
  IF n = 0 THEN {<<>>}
  ELSE LET shorter == SeqsUpTo(S, n - 1)
       IN shorter \cup {Append(q, x) : q \in shorter, x \in S}

\* The strings over the one-character strings of C, of length at most n.
RECURSIVE StringsUpTo(_, _)
StringsUpTo(C, n) ==
  IF n = 0 THEN {""}
  ELSE LET shorter == StringsUpTo(C, n - 1)
       IN shorter \cup {q \o c : q \in shorter, c \in C}

JSON_TEXT == "{\"answer\":\"42\"}"
FENCED_TEXT == FENCE \o "json\n{\"latex\":\"x^2\",\"answer\":\"4\"}\n" \o FENCE
PROSE_TEXT == "Sure: {\"steps\":[\"a\",\"b\"]} Done."

Scalars ==
  {JUndef, JNull, JBool(TRUE), JBool(FALSE), JInt(0), JInt(42), JStr(""),
   JStr("x = 3"), JStr("42")}

TextInputs ==
  {JStr(JSON_TEXT), JStr(FENCED_TEXT), JStr(PROSE_TEXT), JStr("[1,2]"),
   JStr("null"), JStr("{bad}"), JStr(FENCE \o "5" \o FENCE)}

FieldVals ==
  {JNull, JBool(FALSE), JInt(0), JInt(42), JStr(""), JStr("x = 3"), JStr("42"),
   JStr("First, do A. Then do B."), JStr(JSON_TEXT),
   JArr(<<>>), JArr(<<JStr("a"), JInt(1), JNull, JObj(<<>>)>>),
   JObj(<<>>), Obj1("value", JInt(3)), Obj1("value", Obj1("a", JInt(1))),
   Obj1("text", JStr("t")), Obj1("content", JStr("see above")),
   Obj1("content", JStr(JSON_TEXT))}

FieldKeys ==
  {"latex", "answer", "steps", "notes", "Answer", "solution", "explanation",
   "raw", "raw_text", "message", "choices", "other"}

PairKeys == {"latex", "answer", "steps", "notes", "raw", "message", "other"}
PairVals == {JNull, JStr(""), JStr("x = 3"), JBool(TRUE), Obj1("content", JStr("c"))}

ChoiceVals ==
  {JNull, JInt(5), JStr("plain"), JStr(JSON_TEXT), JObj(<<>>),
   Obj1("message", JNull), Obj1("message", JStr(JSON_TEXT)),
   Obj1("message", Obj1("content", JNull)),
   Obj1("message", Obj1("content", JInt(5))),
   Obj1("message", Obj1("content", JStr("plain text"))),
   Obj1("message", Obj1("content", JStr(JSON_TEXT))),
   Obj1("message", Obj1("content", JStr(FENCED_TEXT))),
   Obj1("text", JStr("plain")), Obj1("text", JStr(JSON_TEXT))}

ChoiceLists == {JArr(cs) : cs \in SeqsUpTo(ChoiceVals, MaxChoices)}

GeneralParsed ==
  Scalars \cup TextInputs
    \cup {JArr(<<>>), JArr(<<Obj1("answer", JInt(1))>>)}
    \cup {Obj1(k, v) : k \in FieldKeys, v \in FieldVals}
    \cup {Obj1("choices", c) : c \in ChoiceLists}
    \cup {Obj2("notes", JStr("n"), "choices", c) : c \in ChoiceLists}
    \cup {Obj2("answer", JStr("7"), "choices", c) : c \in ChoiceLists}
    \cup {Obj2(k[1], v1, k[2], v2) :
             k \in {kk \in PairKeys \X PairKeys : kk[1] # kk[2]},
             v1 \in PairVals, v2 \in PairVals}

GeneralRaw ==
  {JUndef, JNull, JStr(""), JStr("not json at all"), JStr(JSON_TEXT), JStr(FENCED_TEXT)}

\* Objects carrying two aliases of one field.
AliasVals == {JNull, JStr(""), JStr("5"), JStr("6")}

AliasPairs(keys) ==
  {Obj2(keys[i], v1, keys[j], v2) :
     i \in DOMAIN keys, j \in DOMAIN keys, v1 \in AliasVals, v2 \in AliasVals}

AliasParsed ==
  {o \in AliasPairs(LATEX_KEYS_R2) \cup AliasPairs(ANSWER_KEYS_R2)
           \cup AliasPairs(STEPS_KEYS_R2) \cup AliasPairs(NOTES_KEYS_R2) :
     o.o[1][1] # o.o[2][1]}

\* Answers given as strings.
AnswerChars == {"4", "2", " ", "-", ".", "x"}
AnswerStrings == StringsUpTo(AnswerChars, MaxLen) \cup {"x = 3", "Infinity", "\"42\""}

\* Strings given to cleanLatex.
CleanChars == {"\"", " ", "a", "\\", "n", "[", BT}
CleanStrings == StringsUpTo(CleanChars, MaxLen)

\* The deepest nesting of envelopes.
MaxNest == 2

\* The reply of a chat-completion service: the text sits in the first choice,
\* as its message content, its message or its text.
Choice(kind, text) ==
  CASE kind = "content" -> Obj1("message", Obj1("content", JStr(text)))
    [] kind = "message" -> Obj1("message", JStr(text))
    [] kind = "text" -> Obj1("text", JStr(text))

Styled(style, json) ==
  CASE style = "plain" -> json
    [] style = "fenced" -> FENCE \o "json\n" \o json \o "\n" \o FENCE
    [] style = "prose" -> "Here it is: " \o json \o " Done."

Envelope(json, kind, style, extra) ==
  JObj(extra \o <<<<"choices", JArr(<<Choice(kind, Styled(style, json))>>)>>>>)

InnerBase ==
  {Obj1("answer", JStr("42")), Obj2("latex", JStr("x^2"), "answer", JStr("4")),
   Obj1("steps", JArr(<<JStr("a"), JStr("b")>>)), Obj1("other", JInt(1)),
   JObj(<<>>), Obj1("choices", JArr(<<Obj1("text", JStr("plain"))>>)),
   Obj1("message", Obj1("content", JStr(JSON_TEXT)))}

\* The objects an envelope holds: the base objects, themselves wrapped at
\* most n - 1 times.
RECURSIVE Inners(_)
Inners(n) ==
  IF n <= 1 THEN InnerBase
  ELSE LET less == Inners(n - 1)
       IN less \cup {Envelope(JSONstringify(o), "content", "plain", <<>>) : o \in less}

EnvelopeKinds == {"content", "message", "text"}
EnvelopeStyles == {"plain", "fenced", "prose"}
EnvelopeExtras ==
  {<<>>, <<<<"notes", JStr("n")>>>>, <<<<"id", JStr("x")>>>>,
   <<<<"answer", JStr("7")>>>>, <<<<"answer", JStr("")>>>>,
   <<<<"steps", JArr(<<JStr("s")>>)>>>>, <<<<"latex", JNull>>>>}

(***************************************************************************)
(* The screen                                                              *)
(***************************************************************************)

\* The state of the hooks when the component mounts (lines 57-63, 635-640);
\* no send has run.
Mounted ==
  /\ image = JNull
  /\ resultRaw = JNull
  /\ result = JNull
  /\ loading = FALSE
  /\ backendUrl = "http://localhost:8000"
  /\ showRaw = FALSE
  /\ uri = JNull
  /\ requests = 0
  /\ alert = ""

\* k in v, for the values JSON.parse gives.
hasKey(v, k) == v.t = "obj" /\ \E i \in DOMAIN v.o : v.o[i][1] = k

\* What send has when its try block ends: the values given to setResultRaw
\* and setResult, or the exception caught (ok is FALSE).
Sent(parsed, raw, normalized) ==
  [ok |-> parsed # JThrow /\ normalized # JThrow,
   parsed |-> parsed, raw |-> raw, normalized |-> normalized]

SendFailed == [ok |-> FALSE, parsed |-> JThrow, raw |-> JNull, normalized |-> JThrow]

\* Lines 359-367: the message of the first choice is searched for JSON.
candidateOrR1(backendParsed, candidate) ==
  IF IsStr(candidate) THEN maybeOr(extractJsonFromTextR1(candidate), backendParsed)
  ELSE backendParsed

\* Lines 356-372: backendParsed after the search of the choices or of the
\* raw text; typeof null is "object", and null.choices throws.
unwrapSentR1(backendParsed, backendRaw) ==
  IF TypeofObject(backendParsed)
    THEN IF Get(backendParsed, "choices") = JThrow THEN JThrow
         ELSE IF /\ Truthy(Get(backendParsed, "choices"))
                 /\ IsArr(Get(backendParsed, "choices"))
                 /\ Len(Get(backendParsed, "choices").a) > 0
           THEN candidateOrR1(backendParsed,
                              Coalesce(choiceMsg(At0(Get(backendParsed, "choices"))), JNull))
           ELSE backendParsed
    ELSE IF IsStr(backendRaw)
      THEN maybeOr(extractJsonFromTextR1(backendRaw), backendParsed)
      ELSE backendParsed

\* Lines 374-377 under the try of line 312.
normalizedR1(backendParsed, backendRaw) ==
  IF backendParsed = JThrow THEN SendFailed
  ELSE Sent(backendParsed, backendRaw, normalizeParsedR1(backendParsed, backendRaw))

\* Lines 346-377: send of the first revision from the decoded body.
sentR1(parsedJson, rawText) ==
  IF Truthy(parsedJson) /\ TypeofObject(parsedJson)
    THEN normalizedR1(unwrapSentR1(Coalesce(Get(parsedJson, "parsed"), parsedJson),
                                   Coalesce(Get(parsedJson, "raw"), JNull)),
                      Coalesce(Get(parsedJson, "raw"), JNull))
    ELSE IF Truthy(rawText)
      THEN normalizedR1(unwrapSentR1(JNull, rawText), rawText)
      ELSE normalizedR1(unwrapSentR1(JNull, JNull), JNull)

\* Lines 918-921: a string is searched for JSON.
fromStringSentR2(backendParsed) ==
  IF IsStr(backendParsed) THEN maybeOr(extractJsonFromTextR2(backendParsed), backendParsed)
  ELSE backendParsed

\* Lines 928-930.
normalizedR2(backendParsed, backendRaw, rawText) ==
  Sent(backendParsed, Coalesce(backendRaw, rawText),
       normalizeParsedR2(backendParsed, backendRaw))

\* Lines 906-930: the envelope is opened, a string and then the raw text are
\* searched, and the outcome is normalized.
unwrappedR2(backendParsed, backendRaw, rawText) ==
  normalizedR2(fromRawR2(fromStringSentR2(unwrapEnvelopeR2(backendParsed)), backendRaw),
               backendRaw, rawText)

\* Lines 895-930: send of the second revision from the decoded body.
sentR2(parsedBody, rawText) ==
  IF Truthy(parsedBody) /\ TypeofObject(parsedBody)
     /\ (hasKey(parsedBody, "parsed") \/ hasKey(parsedBody, "raw"))
    THEN unwrappedR2(Coalesce(Get(parsedBody, "parsed"), JNull),
                     Coalesce(Get(parsedBody, "raw"), JNull), rawText)
    ELSE IF Truthy(parsedBody) /\ TypeofObject(parsedBody)
      THEN unwrappedR2(parsedBody, JNull, rawText)
      ELSE IF Truthy(rawText) THEN unwrappedR2(JNull, rawText, rawText)
      ELSE unwrappedR2(JNull, JNull, rawText)

\* send from the decoded body, in the revision that is mounted.
sent(r, parsedJson, rawText) ==
  IF r = 1 THEN sentR1(parsedJson, rawText) ELSE sentR2(parsedJson, rawText)

\* Lines 339-343 and 889-893: try { await resp.json() } catch { await
\* resp.text() }.  The text is read after json() has read the body; whether
\* the body can be read again is the platform's choice (reread): where it
\* cannot, resp.text() rejects and send ends in its catch.
decoded(r, body, parsedJson, reread) ==
  IF parsedJson # JThrow THEN sent(r, parsedJson, JNull)
  ELSE IF reread THEN sent(r, JNull, JStr(body))
  ELSE SendFailed

reply(r, body, reread) == decoded(r, body, JSONparse(body), reread)

(***************************************************************************)
(* The calls                                                               *)
(***************************************************************************)

\* normalizeParsed of the first revision is called on the arguments.
CallR1 ==
  /\ pc = "start"
  /\ pc' = "r1"
  /\ out' = normalizeParsedR1(argParsed, argRaw)
  /\ UNCHANGED <<argParsed, argRaw, str>>
  /\ UNCHANGED screen

\* normalizeParsed of the second revision is called on the arguments.
CallR2 ==
  /\ pc = "start"
  /\ pc' = "r2"
  /\ out' = normalizeParsedR2(argParsed, argRaw)
  /\ UNCHANGED <<argParsed, argRaw, str>>
  /\ UNCHANGED screen

\* cleanLatex is applied to the string.
Clean ==
  /\ pc = "start"
  /\ pc' = "cleaned"
  /\ out' = cleanLatex(JStr(str))
  /\ UNCHANGED <<argParsed, argRaw, str>>
  /\ UNCHANGED screen

\* cleanLatex is applied to its own result.
CleanAgain ==
  /\ pc = "cleaned"
  /\ pc' = "recleaned"
  /\ out' = cleanLatex(out)
  /\ UNCHANGED <<argParsed, argRaw, str>>
  /\ UNCHANGED screen

Called == pc \in {"r1", "r2"}

Init ==
  /\ pc = "start"
  /\ argParsed \in GeneralParsed
  /\ argRaw \in GeneralRaw
  /\ str = ""
  /\ out = JUndef
  /\ rev = 0
  /\ Mounted

Next == CallR1 \/ CallR2

Spec == Init /\ [][Next]_vars

\* The calls on objects that carry two aliases of a field.
InitAlias ==
  /\ pc = "start"
  /\ argParsed \in AliasParsed
  /\ argRaw \in {JUndef, JStr("not json at all")}
  /\ str = ""
  /\ out = JUndef
  /\ rev = 0
  /\ Mounted

SpecAlias == InitAlias /\ [][Next]_vars

\* The calls on objects whose answer is the string str.
InitAnswer ==
  /\ pc = "start"
  /\ str \in AnswerStrings
  /\ argParsed = Obj1("answer", JStr(str))
  /\ argRaw = JUndef
  /\ out = JUndef
  /\ rev = 0
  /\ Mounted

SpecAnswer == InitAnswer /\ [][Next]_vars

\* The calls on envelopes whose first choice holds the JSON text str.
InitEnvelope ==
  /\ pc = "start"
  /\ str \in {JSONstringify(o) : o \in Inners(MaxNest)}
  /\ argParsed \in {Envelope(str, k, st, x) :
                      k \in EnvelopeKinds, st \in EnvelopeStyles, x \in EnvelopeExtras}
  /\ argRaw \in {JUndef, JStr(JSON_TEXT)}
  /\ out = JUndef
  /\ rev = 0
  /\ Mounted

SpecEnvelope == InitEnvelope /\ [][Next]_vars

\* The calls on every input of the specifications above.
InitAny == Init \/ InitAlias \/ InitAnswer \/ InitEnvelope

SpecAny == InitAny /\ [][Next]_vars

\* cleanLatex applied twice to a generated string.
InitClean ==
  /\ pc = "start"
  /\ str \in CleanStrings
  /\ argParsed = JNull
  /\ argRaw = JUndef
  /\ out = JUndef
  /\ rev = 0
  /\ Mounted

NextClean == Clean \/ CleanAgain

SpecClean == InitClean /\ [][NextClean]_vars

(***************************************************************************)
(* The screen's handlers                                                   *)
(***************************************************************************)

\* The assets the image picker gives.
Assets == {Obj1("uri", JStr("file:///a.png")), Obj1("uri", JStr("file:///b.jpg"))}

\* The addresses typed into the Backend URL field.
Urls == {"http://localhost:8000", "http://10.0.2.2:8000"}

\* Bodies of the backend's reply: the {raw, parsed} envelope.
ENVELOPE_BODIES ==
  {"{\"raw\":\"r\",\"parsed\":{\"answer\":\"42\"}}",
   "{\"raw\":\"{\\\"answer\\\":\\\"4\\\"}\",\"parsed\":null}",
   "{\"raw\":null,\"parsed\":null}",
   "{\"parsed\":\"{\\\"latex\\\":\\\"x\\\"}\"}",
   "{\"raw\":\"not json\",\"parsed\":{\"choices\":[{\"text\":\"{\\\"answer\\\":\\\"4\\\"}\"}]}}"}

\* A bare object shaped as a provider shapes it.
PROVIDER_BODIES ==
  {"{\"choices\":[{\"message\":{\"content\":\"{\\\"answer\\\":\\\"42\\\"}\"}}]}",
   "{\"choices\":[{\"text\":\"plain\"}]}",
   "{\"choices\":[null]}",
   "{\"answer\":\"42\"}",
   "{\"message\":{\"content\":\"see above\"}}",
   "{}"}

\* Text that is no JSON.
TEXT_BODIES ==
  {"not json at all", "The answer: {\"answer\":\"4\"} Done.", "Internal Server Error"}

\* JSON that is no object, and the empty body.
OTHER_BODIES == {"", "5", "null", "\"text\"", "[{\"answer\":1}]"}

Bodies == ENVELOPE_BODIES \cup PROVIDER_BODIES \cup TEXT_BODIES \cup OTHER_BODIES

\* A call of send is between its try and its finally.
InFlight == requests > 0

\* The first argument of the alert of a refused permission (lines 288, 677)
\* and of a send without an image (lines 305, 856), by revision.
PERMISSION == <<"Permission", "Permission required to access gallery.">>
PICK_FIRST == <<"Pick image first", "Pick an image first">>

\* Every variable but the alert.
allButAlert ==
  <<pc, argParsed, argRaw, str, out, rev, image, resultRaw, result, loading, backendUrl,
    showRaw, uri, requests>>

\* A pick that also puts the address of the backend back to its default.
PickImageResetsUrl ==
  /\ rev \in {1, 2}
  /\ \E asset \in Assets :
       /\ image' = asset
       /\ result' = JNull
       /\ resultRaw' = JNull
       /\ showRaw' = FALSE
       /\ backendUrl' = "http://localhost:8000"
  /\ UNCHANGED <<pc, argParsed, argRaw, str, out, rev, loading, uri, requests, alert>>

\* A pick that discards the result before it asks for the permission.
PickImageDiscardsFirst ==
  /\ rev \in {1, 2}
  /\ \E granted \in BOOLEAN, canceled \in BOOLEAN, asset \in Assets :
       /\ result' = JNull
       /\ resultRaw' = JNull
       /\ showRaw' = FALSE
       /\ IF ~granted THEN alert' = PERMISSION[rev] /\ image' = image
          ELSE IF canceled THEN UNCHANGED <<image, alert>>
          ELSE image' = asset /\ alert' = alert
  /\ UNCHANGED <<pc, argParsed, argRaw, str, out, rev, loading, backendUrl, uri, requests>>

\* pickImage: a refused permission is reported and a cancelled picker
\* changes nothing; a picked asset replaces the image and discards the result.
PickImage ==
  /\ rev \in {1, 2}
  /\ \E granted \in BOOLEAN, canceled \in BOOLEAN, asset \in Assets :
       IF ~granted
         THEN /\ alert' = PERMISSION[rev]
              /\ UNCHANGED <<image, result, resultRaw, showRaw>>
         ELSE IF canceled
           THEN UNCHANGED <<image, result, resultRaw, showRaw, alert>>
           ELSE /\ image' = asset
                /\ result' = JNull
                /\ resultRaw' = JNull
                /\ showRaw' = FALSE
                /\ alert' = alert
  /\ UNCHANGED <<pc, argParsed, argRaw, str, out, rev, loading, backendUrl, uri, requests>>

\* onChangeText={setBackendUrl}
EditUrl ==
  /\ rev \in {1, 2}
  /\ \E url \in Urls : backendUrl' = url
  /\ UNCHANGED <<pc, argParsed, argRaw, str, out, rev, image, resultRaw, result, loading,
                 showRaw, uri, requests, alert>>

\* onPress={() => setShowRaw((v) => !v)}
ToggleRaw ==
  /\ rev \in {1, 2}
  /\ showRaw' = ~showRaw
  /\ UNCHANGED <<pc, argParsed, argRaw, str, out, rev, image, resultRaw, result, loading,
                 backendUrl, uri, requests, alert>>

\* A send that leaves the result of the request before on the screen.
SendStartKeepsResult ==
  /\ rev \in {1, 2}
  /\ ~loading
  /\ IF ~Truthy(image) THEN alert' = PICK_FIRST[rev] /\ UNCHANGED allButAlert
     ELSE /\ loading' = TRUE
          /\ pc' = "fetching"
          /\ str' = ""
          /\ uri' = Get(image, "uri")
          /\ requests' = requests + 1
          /\ alert' = alert
          /\ UNCHANGED <<argParsed, argRaw, out, rev, image, backendUrl, result, resultRaw,
                         showRaw>>

\* A send whose buttons stay enabled while a request runs.
SendStartNotDisabled ==
  /\ rev \in {1, 2}
  /\ requests < 2
  /\ IF ~Truthy(image) THEN alert' = PICK_FIRST[rev] /\ UNCHANGED allButAlert
     ELSE /\ loading' = TRUE
          /\ result' = JNull
          /\ resultRaw' = JNull
          /\ showRaw' = FALSE
          /\ pc' = "fetching"
          /\ str' = ""
          /\ uri' = Get(image, "uri")
          /\ requests' = requests + 1
          /\ alert' = alert
          /\ UNCHANGED <<argParsed, argRaw, out, rev, image, backendUrl>>

\* send up to its first await.  The buttons are disabled while loading.
\* Without an image send alerts and returns.
SendStart ==
  /\ rev \in {1, 2}
  /\ ~loading
  /\ IF ~Truthy(image) THEN alert' = PICK_FIRST[rev] /\ UNCHANGED allButAlert
     ELSE /\ loading' = TRUE
          /\ result' = JNull
          /\ resultRaw' = JNull
          /\ showRaw' = FALSE
          /\ pc' = "fetching"
          /\ str' = ""
          /\ uri' = Get(image, "uri")
          /\ requests' = requests + 1
          /\ alert' = alert
          /\ UNCHANGED <<argParsed, argRaw, out, rev, image, backendUrl>>

\* A catch without the finally: loading is left as it is.
CaughtStillLoading ==
  /\ pc' = "failed"
  /\ alert' = "Upload failed"
  /\ requests' = requests - 1
  /\ UNCHANGED <<argParsed, argRaw, out, rev, image, resultRaw, result, loading, backendUrl,
                 showRaw, uri>>

\* A catch reached after setResultRaw has been called.
CaughtAfterRaw ==
  /\ pc' = "failed"
  /\ alert' = "Upload failed"
  /\ loading' = FALSE
  /\ requests' = requests - 1
  /\ resultRaw' = Obj2("parsed", JNull, "raw", JNull)
  /\ UNCHANGED <<argParsed, argRaw, out, rev, image, result, backendUrl, showRaw, uri>>

\* What the catch and the finally of send leave.
Caught ==
  /\ pc' = "failed"
  /\ alert' = "Upload failed"
  /\ loading' = FALSE
  /\ requests' = requests - 1
  /\ UNCHANGED <<argParsed, argRaw, out, rev, image, resultRaw, result, backendUrl, showRaw,
                 uri>>

\* fetch rejects, or the form cannot be built: catch, then finally.
SendThrow ==
  /\ InFlight
  /\ Caught
  /\ UNCHANGED str

\* The end of send on what it has when its try block ends.
Settle(r) ==
  IF r.ok
    THEN /\ resultRaw' = Obj2("parsed", r.parsed, "raw", r.raw)
         /\ result' = r.normalized
         /\ argParsed' = r.parsed
         /\ argRaw' = r.raw
         /\ out' = r.normalized
         /\ pc' = "done"
         /\ loading' = FALSE
         /\ requests' = requests - 1
         /\ UNCHANGED <<rev, image, backendUrl, showRaw, uri, alert>>
    ELSE Caught

\* The backend's reply arrives and send runs to its end.
SendReply ==
  /\ InFlight
  /\ \E body \in Bodies, reread \in BOOLEAN :
       /\ str' = body
       /\ Settle(reply(rev, body, reread))

InitScreen ==
  /\ pc = "idle"
  /\ argParsed = JNull
  /\ argRaw = JNull
  /\ str = ""
  /\ out = JUndef
  /\ rev \in {1, 2}
  /\ Mounted

NextScreen == PickImage \/ EditUrl \/ ToggleRaw \/ SendStart \/ SendThrow \/ SendReply

SpecScreen == InitScreen /\ [][NextScreen]_vars

\* Every request is answered or fails: the promise of fetch settles.
SpecScreenFair == SpecScreen /\ WF_vars(SendThrow \/ SendReply)

(***************************************************************************)
(* Totality and shape of the result                                        *)
(***************************************************************************)

C2_AlwaysRecord == Called => out.t = "result"

\* No JSON object or array was recovered from parsed or from rawText.
NothingRecovered ==
  LET rec == IF pc = "r1" THEN recoverR1(argParsed, argRaw)
             ELSE recoverR2(argParsed, argRaw)
  IN rec.t \notin {"obj", "arr"}

\* C3: when no JSON object can be recovered from parsed or from rawText, the
\* result has notes equal to the original rawText and latex, answer and steps
\* absent.
C3_TotalFailure ==
  (Called /\ IsStr(argRaw) /\ argRaw.s # "" /\ NothingRecovered)
    => out = Result(JNull, JNull, JNull, argRaw)

OptionalString(v) == v.t \in {"null", "undefined", "str"}

\* C5: every result conforms to the declared types: latex is a string or
\* absent, answer is a string or a number or absent, steps is absent or an
\* array of strings, notes is a string or absent.
C5_ResultTypes ==
  (Called /\ out.t = "result")
    => /\ OptionalString(out.latex)
       /\ OptionalString(out.answer) \/ IsNum(out.answer)
       /\ \/ IsNullish(out.steps)
          \/ IsArr(out.steps) /\ \A i \in 1..Len(out.steps.a) : IsStr(out.steps.a[i])
       /\ OptionalString(out.notes)

(***************************************************************************)
(* Aliases                                                                 *)
(***************************************************************************)

FIELDS == {"latex", "answer", "steps", "notes"}

\* The alias lists of each revision, and the lists of the second revision as
\* the documented priority lists.
KeysR1 ==
  [latex |-> LATEX_KEYS_R1, answer |-> ANSWER_KEYS_R1, steps |-> STEPS_KEYS_R1,
   notes |-> NOTES_KEYS_R1]
KeysR2 ==
  [latex |-> LATEX_KEYS_R2, answer |-> ANSWER_KEYS_R2, steps |-> STEPS_KEYS_R2,
   notes |-> NOTES_KEYS_R2]
KeysHere == IF pc = "r1" THEN KeysR1 ELSE KeysR2

\* The call of the revision that ran, on other arguments.
SameCall(parsed, rawText) ==
  IF pc = "r1" THEN normalizeParsedR1(parsed, rawText)
  ELSE normalizeParsedR2(parsed, rawText)

keysOf(v) == IF v.t = "obj" THEN {v.o[i][1] : i \in DOMAIN v.o} ELSE {}
Range(q) == {q[i] : i \in DOMAIN q}
without(v, K) == JObj(SelectSeq(v.o, LAMBDA pr : pr[1] \notin K))

\* The keys of the list that the object carries, and those it carries with a
\* value other than null.
carried(v, keys) == Range(keys) \cap keysOf(v)
carriedNonNull(v, keys) == {k \in carried(v, keys) : ~IsNullish(lookup(v.o, k))}

\* The earliest key of the list that is in K.
earliest(keys, K) == keys[CHOOSE i \in DOMAIN keys :
                            keys[i] \in K /\ \A j \in 1..(i - 1) : keys[j] \notin K]

\* C6 as stated: when an object carries several aliases of a field, the
\* documented list's earliest alias that the object carries decides the field:
\* the result's field is what it is when the other aliases are taken away.
C6_EarliestCarriedAlias ==
  (Called /\ out.t = "result") =>
    \A f \in FIELDS :
      LET K == carried(argParsed, KeysR2[f])
      IN Cardinality(K) >= 2 =>
           out[f] = SameCall(without(argParsed, K \ {earliest(KeysR2[f], K)}), argRaw)[f]

\* C6: when an object carries several of the aliases a revision reads for a
\* field, the earliest alias of that revision's list whose value is not null
\* decides the field: the result's field is what it is when the revision's
\* other aliases are taken away.
C6_EarliestNonNullAlias ==
  (Called /\ out.t = "result") =>
    \A f \in FIELDS :
      LET K == carried(argParsed, KeysHere[f])
          N == carriedNonNull(argParsed, KeysHere[f])
      IN (Cardinality(K) >= 2 /\ N # {}) =>
           out[f] = SameCall(without(argParsed, K \ {earliest(KeysHere[f], N)}), argRaw)[f]

\* The null answer is passed over and the later alias Answer is used.
C6_Witness ==
  /\ pc = "r2"
  /\ argParsed = Obj2("answer", JNull, "Answer", JStr("6"))
  /\ out.t = "result"
  /\ out.answer = JInt(6)

\* The object the fields are read from: in the first revision the envelopes
\* are opened one after the other.
RECURSIVE recoveredR1(_, _)
recoveredR1(parsedIn, rawText) ==
  LET parsed == recoverR1(parsedIn, rawText)
      inner == innerOfR1(parsed)
  IN IF Truthy(inner) THEN recoveredR1(inner, rawText) ELSE parsed

Recovered ==
  IF pc = "r1" THEN recoveredR1(argParsed, argRaw) ELSE recoverR2(argParsed, argRaw)

\* The keys a revision takes steps from when no steps alias gave any.
StepsSources ==
  IF pc = "r1" THEN {"choices"} ELSE {"choices", "message", "raw", "raw_text"}

\* C7 as stated: a field none of whose aliases the recovered object carries is
\* absent from the result, steps included.
C7_NoAliasNoField ==
  (Called /\ out.t = "result" /\ Recovered.t = "obj") =>
    \A f \in FIELDS : carried(Recovered, KeysHere[f]) = {} => IsNullish(out[f])

\* C7: latex, answer and notes are absent when the recovered object carries
\* none of their aliases; steps is absent when the object carries none of the
\* steps aliases and none of the keys the revision falls back on (choices in
\* the first revision; choices, message, raw and raw_text in the second).
C7_NoAliasNoSource ==
  (Called /\ out.t = "result" /\ Recovered.t = "obj") =>
    /\ \A f \in FIELDS \ {"steps"} :
         carried(Recovered, KeysHere[f]) = {} => IsNullish(out[f])
    /\ (carried(Recovered, KeysHere.steps) = {} /\ keysOf(Recovered) \cap StepsSources = {})
         => IsNullish(out.steps)

\* An object with an answer and nothing else: the other three fields are absent.
C7_Witness ==
  /\ pc = "r2"
  /\ argParsed = Obj1("answer", JStr("x = 3"))
  /\ out.t = "result"
  /\ out.answer = JStr("x = 3")
  /\ out.latex = JNull /\ out.steps = JNull /\ out.notes = JNull

(***************************************************************************)
(* Numeric coercion of the answer                                          *)
(***************************************************************************)

\* C8: a string answer becomes a number exactly when its cleaned, trimmed form
\* parses as a finite number; every other string, the empty and the
\* whitespace-only ones included, stays a string.
C8_NumericCoercion ==
  (Called /\ out.t = "result" /\ argParsed = Obj1("answer", JStr(str))) =>
    LET cleaned == trim(sanitizeAnswerString(str))
        n == Number(cleaned)
    IN IF cleaned # "" /\ n.k = "fin" THEN out.answer = n ELSE IsStr(out.answer)

(***************************************************************************)
(* Envelopes                                                               *)
(***************************************************************************)

OwnFields ==
  \/ Truthy(aliasedR1(argParsed, LATEX_KEYS_R1))
  \/ Truthy(aliasedR1(argParsed, ANSWER_KEYS_R1))
  \/ Truthy(aliasedR1(argParsed, STEPS_KEYS_R1))

\* The object in the message is itself an envelope holding another object,
\* which the second revision does not open.
InnerIsEnvelope == unwrapEnvelopeR2(JSONparse(str)) # JSONparse(str)

C10_Idempotent == pc = "recleaned" => out = cleanLatex(JStr(str))

(***************************************************************************)
(* The latex field                                                         *)
(***************************************************************************)

\* Latex given as a string.
LatexChars == {"\\", "f", " ", "[", "n"}
LatexStrings == StringsUpTo(LatexChars, MaxLen)

\* The calls on objects whose latex is the string str.
InitLatex ==
  /\ pc = "start"
  /\ str \in LatexStrings
  /\ argParsed = Obj1("latex", JStr(str))
  /\ argRaw = JUndef
  /\ out = JUndef
  /\ rev = 0
  /\ Mounted

SpecLatex == InitLatex /\ [][Next]_vars

\* C11: the latex field of the normalized result never contains two
\* consecutive backslashes: every run of two or more is collapsed to one.
C11_LatexBackslashes ==
  (Called /\ out.t = "result" /\ IsStr(out.latex)) => indexOf(out.latex.s, "\\\\", 1) = 0

(***************************************************************************)
(* Steps given as one string                                               *)
(***************************************************************************)

\* Steps given as a string without line breaks and without numbering.
StepChars == {"a", ".", " ", "\""}
StepStrings ==
  StringsUpTo(StepChars, MaxLen + 1)
    \cup {"First, do A. Then do B.", "One sentence only.", "No period at all",
          "\"Add a. Then b.\""}

\* The calls on objects whose steps is the string str.
InitSteps ==
  /\ pc = "start"
  /\ str \in StepStrings
  /\ argParsed = Obj1("steps", JStr(str))
  /\ argRaw = JUndef
  /\ out = JUndef
  /\ rev = 0
  /\ Mounted

SpecSteps == InitSteps /\ [][Next]_vars

\* The first place of a text where a sentence ends and another text
\* follows: a period followed by a space; 0 when there is none.
RECURSIVE sentenceEnd(_, _)
sentenceEnd(t, i) ==
  IF i >= Len(t) THEN 0
  ELSE IF Ch(t, i) = "." /\ Ch(t, i + 1) = " " THEN i
  ELSE sentenceEnd(t, i + 1)

\* The sentences of a trimmed text, each with its period.
RECURSIVE Sentences(_)
Sentences(t) ==
  IF sentenceEnd(t, 1) = 0 THEN <<t>>
  ELSE <<Sub(t, 1, sentenceEnd(t, 1))>> \o Sentences(trim(From(t, sentenceEnd(t, 1) + 1)))

Replied == pc \in {"done", "failed"} /\ str # ""

\* C13: send reaches setResult, and not the upload-failed path, for each of
\* the three shapes of the reply: the {raw, parsed} envelope, whose raw is
\* passed as the raw text, a bare object of a provider, passed as parsed, and
\* a text that is no JSON, passed as the raw text.
C13_ThreeShapes ==
  (Replied /\ str \in ENVELOPE_BODIES \cup PROVIDER_BODIES \cup TEXT_BODIES)
    => /\ pc = "done"
       /\ str \in ENVELOPE_BODIES => argRaw = Coalesce(Get(JSONparse(str), "raw"), JNull)
       /\ str \in PROVIDER_BODIES => Truthy(argParsed) /\ TypeofObject(argParsed)
       /\ str \in TEXT_BODIES => argRaw = JStr(str)

\* C14: loading is true exactly while a solve request runs, and every
\* request that was started sets loading back to false, whether the reply is
\* decoded, cannot be decoded, or the network call throws.
C14_Loading == [](loading <=> InFlight) /\ (loading ~> ~loading)

\* A request whose reply could not be decoded has ended and loading is false.
C14_Witness ==
  /\ pc = "failed"
  /\ str = "not json at all"
  /\ ~loading

\* C15 as stated: while a solve request runs result and resultRaw are null
\* and showRaw is false, and the result changes only when a request starts,
\* when its reply has been normalized, or when an image is picked.
C15_OncePerRequest ==
  [][/\ InFlight' => (result' = JNull /\ resultRaw' = JNull /\ showRaw' = FALSE)
     /\ <<result, resultRaw>>' # <<result, resultRaw>>
          => (SendStart \/ SendReply \/ PickImage)]_vars

\* C15: a request starts with result and resultRaw null and showRaw false;
\* result and resultRaw stay null while it runs and are set once, together,
\* when its reply has been normalized; they change otherwise only when a
\* request starts or an image is picked.  showRaw follows the user's toggle
\* and is reset by an image pick, also while the request runs.
C15_OncePerRequestToggled ==
  [][/\ InFlight' => (result' = JNull /\ resultRaw' = JNull)
     /\ (~InFlight /\ InFlight') => showRaw' = FALSE
     /\ (InFlight /\ InFlight' /\ showRaw' # showRaw) => (ToggleRaw \/ PickImage)
     /\ <<result, resultRaw>>' # <<result, resultRaw>>
          => (SendStart \/ SendReply \/ PickImage)
     /\ (result' # result /\ result' # JNull) => (InFlight /\ pc' = "done")]_vars

\* The raw reply was switched on while a request runs.
C15_Witness ==
  /\ InFlight
  /\ showRaw
  /\ result = JNull
  /\ resultRaw = JNull

\* C16: the address of the backend changes only by the user's edit of the
\* Backend URL field: picking an image, a send that succeeds or fails and the
\* toggle of the raw reply leave backendUrl as it is.
C16_UrlFrame ==
  [][/\ (PickImage \/ SendStart \/ SendThrow \/ SendReply \/ ToggleRaw)
          => backendUrl' = backendUrl
     /\ backendUrl' # backendUrl => EditUrl]_vars

\* A request has ended with the address the user typed.
C16_Witness ==
  /\ pc \in {"done", "failed"}
  /\ backendUrl = "http://10.0.2.2:8000"
  /\ image # JNull

(***************************************************************************)
(* extractJsonFromText                                                     *)
(***************************************************************************)

\* What a fenced block holds.
FencePayloads ==
  {"{\"a\":1}", "[{\"a\":1}]", "[1]", "5", "\"{}\"", "null", "{bad}", "x {\"a\":1} y", ""}

\* The tag and line feed after the opening fence marker.
FenceTags == {"", "json", "json\n", "JSON\n", "\n"}

\* The text before and after the fenced block.
Prefixes == {"", "Here: ", "{\"b\":2} "}
Suffixes == {"", " done", " {\"c\":3}"}

Fenced(tag, payload) == FENCE \o tag \o payload \o FENCE

\* Texts with one fenced block, each with the payload of the block.
FencedTexts ==
  {<<pre \o Fenced(tag, p) \o post, p>> :
     pre \in Prefixes, tag \in FenceTags, p \in FencePayloads, post \in Suffixes}

\* Texts with two fenced blocks, with the payload of the second.
TwoFenceTexts == {<<Fenced("", "x") \o " " \o Fenced("", "[1]"), "[1]">>}

\* Texts without a fence; "\\n" is the escape of a line feed written out as
\* two characters, "\n" and "\r" are the characters themselves.
PlainTexts ==
  {"{\"a\":1}", "Sure: {\"a\":{\"b\":[1,2]}} Done.", "{\"a\":1} and {\"b\":2}",
   "{\\n\"a\":1\\n}", "{\"a\":\"x\ry\"}", "{\"a\":\"\r\"}", "{\"a\":\"x\ny\"}",
   "{\r\n\"a\":1}", "{bad}", "}{", "{", "not json at all", "[1,2]", "42", " "}

\* Arguments that are no text.
NonTexts == {JUndef, JNull, JStr(""), JInt(5), JObj(<<>>), JBool(TRUE)}

\* extractJsonFromText of the first revision is called on the argument.
ExtractR1 ==
  /\ pc = "text"
  /\ pc' = "x1"
  /\ out' = extractJsonFromTextR1(argParsed)
  /\ UNCHANGED <<argParsed, argRaw, str>>
  /\ UNCHANGED screen

\* extractJsonFromText of the second revision is called on the argument.
ExtractR2 ==
  /\ pc = "text"
  /\ pc' = "x2"
  /\ out' = extractJsonFromTextR2(argParsed)
  /\ UNCHANGED <<argParsed, argRaw, str>>
  /\ UNCHANGED screen

Extracted == pc \in {"x1", "x2"}

\* The calls of extractJsonFromText: argParsed is the argument, str the
\* payload of the fenced block of the text ("" without one).
InitExtract ==
  /\ pc = "text"
  /\ \/ \E t \in FencedTexts \cup TwoFenceTexts : argParsed = JStr(t[1]) /\ str = t[2]
     \/ \E t \in PlainTexts : argParsed = JStr(t) /\ str = ""
     \/ argParsed \in NonTexts /\ str = ""
  /\ argRaw = JNull
  /\ out = JUndef
  /\ rev = 0
  /\ Mounted

NextExtract == ExtractR1 \/ ExtractR2

SpecExtract == InitExtract /\ [][NextExtract]_vars

\* C17: extractJsonFromText prefers a fenced block: when the text holds a
\* fenced block (with or without the json tag) whose content is valid JSON,
\* the value returned is the parse of that content, also when the span from
\* the first "{" to the last "}" of the text parses to another value.
C17_FenceFirst ==
  (Extracted /\ str # "" /\ JSONparse(str) # JThrow) => out = JSONparse(str)

\* The span of a text from its first "{" to its last "}"; "" without one.
BraceSpan(t) ==
  IF indexOf(t, "{", 1) # 0 /\ lastIndexOf(t, "}") > indexOf(t, "{", 1)
    THEN Sub(t, indexOf(t, "{", 1), lastIndexOf(t, "}"))
    ELSE ""

\* A text with its written-out line feed escapes and its carriage returns
\* taken out, or put as spaces.
Stripped(t) == replaceAll(replaceAll(t, "\\n", ""), "\r", "")
Blanked(t) == replaceAll(replaceAll(t, "\\n", " "), "\r", " ")

\* The values of the retried span.
Retried(t) == {JSONparse(Stripped(BraceSpan(t))), JSONparse(Blanked(BraceSpan(t)))} \ {JThrow}

\* The values that parsing a piece of the text gives: its brace span, the
\* span retried, the content of its fenced block and the brace span of that.
PieceValues(t) ==
  ({JSONparse(BraceSpan(t)), JSONparse(str), JSONparse(BraceSpan(str))} \ {JThrow})
    \cup Retried(t)

\* C18: extractJsonFromText never throws; it returns null for an empty,
\* absent or non-string text and when nothing parses, and otherwise a value
\* parsed from a piece of the text: the span from the first "{" to the last
\* "}", or, when that does not parse, the span with its line feed escapes and
\* carriage returns stripped.
C18_ExtractContract ==
  Extracted =>
    /\ out # JThrow
    /\ (~IsStr(argParsed) \/ argParsed.s = "") => out = JNull
    /\ (IsStr(argParsed) /\ out # JNull) => out \in PieceValues(argParsed.s)
    /\ (IsStr(argParsed) /\ indexOf(argParsed.s, FENCE, 1) = 0)
         => /\ JSONparse(BraceSpan(argParsed.s)) # JThrow
                 => out = JSONparse(BraceSpan(argParsed.s))
            /\ (JSONparse(BraceSpan(argParsed.s)) = JThrow /\ Retried(argParsed.s) # {})
                 => out \in Retried(argParsed.s)

(***************************************************************************)
(* A parsed value that is a string                                         *)
(***************************************************************************)

\* Strings given as parsed.
ParsedStrings ==
  {"[{\"latex\":\"x\"}]", "[{\"answer\":\"1\"},{\"answer\":\"2\"}]", "{\"answer\":\"42\"}",
   "{\"steps\":[{\"a\":1}]}", "[1,2]", "42", "true", "null", "\"text\"",
   "\"{\\\"answer\\\":\\\"4\\\"}\"", "{bad}", "not json at all", "[{bad}]",
   JSON_TEXT, FENCED_TEXT, PROSE_TEXT, FENCE \o "[{\"answer\":\"4\"}]" \o FENCE}

\* The calls on a parsed value that is the string str.
InitString ==
  /\ pc = "start"
  /\ str \in ParsedStrings
  /\ argParsed = JStr(str)
  /\ argRaw \in {JUndef, JStr("not json at all"), JStr(JSON_TEXT)}
  /\ out = JUndef
  /\ rev = 0
  /\ Mounted

SpecString == InitString /\ [][Next]_vars

\* extractJsonFromText of the revision that ran.
ExtractHere(v) ==
  IF pc = "r1" THEN extractJsonFromTextR1(v) ELSE extractJsonFromTextR2(v)

\* C19 as stated: a parsed string that is itself the text of a JSON array or
\* object is parsed whole, and the result is that of the parsed value; an
\* object inside it is extracted only when the whole string does not parse.
C19_WholeStringFirst ==
  (Called /\ JSONparse(str).t \in {"obj", "arr"}) => out = SameCall(JSONparse(str), argRaw)

\* C19: a parsed string is first searched by extractJsonFromText, and the
\* result is that of the object or array extracted; the whole string is
\* parsed only when nothing was extracted, and the result is then that of
\* the parsed value (a number, true, or an array without a parsable span).
C19_ExtractionFirst ==
  Called =>
    /\ ExtractHere(argParsed).t \in {"obj", "arr"}
         => out = SameCall(ExtractHere(argParsed), argRaw)
    /\ (~Truthy(ExtractHere(argParsed)) /\ Truthy(JSONparse(str)) /\ ~IsStr(JSONparse(str)))
         => out = SameCall(JSONparse(str), argRaw)

\* The text of an array of one object gave the result of the object.
C19_Witness ==
  /\ pc = "r2"
  /\ str = "[{\"latex\":\"x\"}]"
  /\ argRaw = JUndef
  /\ out = Result(JStr("x"), JNull, JNull, JNull)

(***************************************************************************)
(* The raw text                                                            *)
(***************************************************************************)

\* Texts in the message of a choice that hold JSON that is no object, or none.
NonObjectTexts == {FENCE \o "5" \o FENCE, FENCE \o "json\n[1,2]\n" \o FENCE,
                   FENCE \o "\"seven\"" \o FENCE, "[1,2]", "42", "plain text"}

\* Parsed values that are a JSON object, or a string holding one.
UsableParsed ==
  {Obj1(k, v) : k \in {"latex", "answer", "steps", "notes", "other"},
                v \in {JNull, JStr(""), JStr("x = 3"), JInt(0), JArr(<<JStr("a")>>)}}
    \cup {JObj(<<>>), JStr(JSON_TEXT), JStr(FENCED_TEXT), JStr(PROSE_TEXT)}
    \cup {JObj(<<<<"choices", JArr(<<Choice(k, t)>>)>>>>) :
            k \in EnvelopeKinds, t \in NonObjectTexts \cup {JSON_TEXT, "{}"}}
    \cup {Obj2("notes", JStr("n"), "choices", JArr(<<Choice("content", t)>>)) :
            t \in NonObjectTexts}

\* The calls on a usable parsed value and any raw text.
InitRaw ==
  /\ pc = "start"
  /\ argParsed \in UsableParsed
  /\ argRaw \in GeneralRaw
  /\ str = ""
  /\ out = JUndef
  /\ rev = 0
  /\ Mounted

SpecRaw == InitRaw /\ [][Next]_vars

\* C20: rawText is consulted only when parsed is absent or unusable: for a
\* parsed value that is a JSON object, or a string holding one, the result
\* is the same whatever rawText is, as it is without any rawText, also for a
\* choices envelope whose message holds JSON that is no object.
C20_RawTextIgnored ==
  (Called /\ (argParsed.t = "obj" \/ ExtractHere(argParsed).t = "obj"))
    => out = SameCall(argParsed, JNull)

(***************************************************************************)
(* Steps given as an array                                                 *)
(***************************************************************************)

\* The longest array of steps.
MaxSteps == 2

\* Elements of a steps array: strings, some of which cleanLatex changes, and
\* values that are no strings.
StepElems ==
  {JStr("a"), JStr("  b "), JStr("\"q\""), JStr(""), JInt(1), JNull, JBool(TRUE),
   JArr(<<JStr("a")>>), Obj1("a", JStr("x\ny")), Obj1("a", JStr("\\")), JObj(<<>>)}

\* The calls on an object whose steps are an array.
InitArray ==
  /\ pc = "start"
  /\ argParsed \in {Obj1(k, JArr(a)) : k \in {"steps", "explanation"},
                                      a \in SeqsUpTo(StepElems, MaxSteps)}
  /\ argRaw \in {JUndef, JStr(JSON_TEXT)}
  /\ str = ""
  /\ out = JUndef
  /\ rev = 0
  /\ Mounted

SpecArray == InitArray /\ [][Next]_vars

\* The array of steps the call was given.
StepsGiven == argParsed.o[1][2].a

\* C21: when the steps field is an array, the result's steps have its length
\* and its order: a string element gives the element at its position (as it
\* is, or cleaned), and an element that is no string gives its JSON encoding.
C21_StepsArrayKept ==
  Called =>
    /\ out.t = "result"
    /\ IsArr(out.steps)
    /\ Len(out.steps.a) = Len(StepsGiven)
    /\ \A i \in DOMAIN StepsGiven :
         IF IsStr(StepsGiven[i])
           THEN out.steps.a[i] \in {StepsGiven[i], Coalesce(cleanLatex(StepsGiven[i]), StepsGiven[i])}
           ELSE out.steps.a[i] = JStr(JSONstringify(StepsGiven[i]))

(***************************************************************************)
(* Steps given as several lines                                            *)
(***************************************************************************)

LineChars == {"a", "\n", "1", ".", " ", ")", "\""}
LineStrings ==
  StringsUpTo(LineChars, MaxLen)
    \cup {"1. A\n2. B", "First. Second.\nThird.", "a\r\nb", " x \n\n y ", "\"a\"\nb",
          "1) A 2) B", "First, do A. Then do B.", "one line",
          FENCE \o "\na\nb\n" \o FENCE, FENCE \o "json\n1. a\n2. b" \o FENCE,
          FENCE \o "\na\n" \o FENCE, FENCE, FENCE \o "\n" \o FENCE}

\* The calls on an object whose steps are a string of several lines.
InitLines ==
  /\ pc = "start"
  /\ str \in LineStrings
  /\ argParsed = Obj1("steps", JStr(str))
  /\ argRaw = JUndef
  /\ out = JUndef
  /\ rev = 0
  /\ Mounted

SpecLines == InitLines /\ [][Next]_vars

\* The positions of the line feeds of t, and the line that ends at the line
\* feed at e (at the end of t for e past it), trimmed.
LineFeeds(t) == {i \in 1..Len(t) : Ch(t, i) = "\n"}
LineUpTo(t, e) ==
  trim(Sub(t, greatestOr0({i \in LineFeeds(t) : i < e}) + 1, e - 1))

\* The non-empty lines of t, trimmed, in their order.
NonEmptyLines(t) ==
  LET ends == {e \in LineFeeds(t) \cup {Len(t) + 1} : LineUpTo(t, e) # ""}
      nth(k) == CHOOSE e \in ends : Cardinality({d \in ends : d < e}) = k - 1
  IN [k \in 1..Cardinality(ends) |-> LineUpTo(t, nth(k))]

\* The steps string as the revision that ran splits it: trimmed, and without
\* a fence marker at its start or at its end.
Unfenced ==
  IF pc = "r1" THEN stepsUnfenceR1(trim(str)) ELSE stepsUnfenceR2(trim(str))

NumberedSegments(t) == trimAndDrop(split("number2", trim(t)))

\* C23: a steps string of one line that holds numbering of the form "N. " or
\* "N) " gives one step per numbered segment, the numbering removed, whenever
\* there are two segments or more.
C23_NumberedSplit ==
  (Called /\ indexOf(str, "\n", 1) = 0 /\ Len(NumberedSegments(str)) > 1)
    => out.steps = JArr(strArr(NumberedSegments(str)))

\* ---------------------------------------------------------------------
\* Answers that do not look like LaTeX
\* ---------------------------------------------------------------------

\* The alternatives of the pattern of looksLikeLatex (line 169).
LATEX_MARKS ==
  {"\\frac", "\\sqrt", "\\times", "\\div", "\\left", "\\right", "\\(", "\\[", "\\]",
   "\\cdot", "\\pi", "{\\", "\\\\"}

\* looksLikeLatex on a string (lines 167-170).
looksLikeLatex(s) == s # "" /\ \E p \in LATEX_MARKS : indexOf(s, p, 1) # 0

\* Answers with and without the marks of LaTeX.
PlainChars == {"\"", "a", "\\", " ", "4", "("}
PlainStrings ==
  StringsUpTo(PlainChars, MaxLen)
    \cup {"\\frac{1}{2}", "x = 3", FENCE \o "5" \o FENCE, "\"x = 3\"", "\\\\frac{1}{2}"}

\* The calls on objects whose answer is a string of PlainStrings.
InitPlain ==
  /\ pc = "start"
  /\ str \in PlainStrings
  /\ argParsed = Obj1("answer", JStr(str))
  /\ argRaw = JUndef
  /\ out = JUndef
  /\ rev = 0
  /\ Mounted

SpecPlain == InitPlain /\ [][Next]_vars

\* The answer of the revision that ran when cleanLatex is left out: the string
\* itself in the first revision, the sanitized and coerced string in the second.
AnswerUncleaned == IF pc = "r1" THEN JStr(str) ELSE coerceStringR2(JStr(str))

\* C24: a string answer that matches none of the patterns of looksLikeLatex
\* is returned without LaTeX cleaning: its fences, its quotes and its
\* backslashes are as they were given.
C24_PlainAnswerKept ==
  (Called /\ ~looksLikeLatex(str)) => out.answer = AnswerUncleaned

\* ---------------------------------------------------------------------
\* Re-entries of normalizeParsed
\* ---------------------------------------------------------------------

\* The calls normalizeParsed of the first revision makes to itself (line 205)
\* before it reads the fields.
RECURSIVE reentriesR1(_, _)
reentriesR1(parsedIn, rawText) ==
  IF Truthy(innerOfR1(recoverR1(parsedIn, rawText)))
    THEN 1 + reentriesR1(innerOfR1(recoverR1(parsedIn, rawText)), rawText)
    ELSE 0

\* The second revision opens an envelope in place and never calls itself.
Reentries == IF pc = "r1" THEN reentriesR1(argParsed, argRaw) ELSE 0

\* C25: normalizeParsed returns, and it has called itself at most once, the
\* one level at which a provider wraps its reply, however many envelopes are
\* nested in its input.
C25_ConstantReentries == Called => (out.t \in {"result", "null"} /\ Reentries <= 1)

(***************************************************************************)
(* The image of the result                                                 *)
(***************************************************************************)

\* C26: a result on the screen was computed from the image on the screen:
\* the reply to a request that uploaded another image, picked before, is
\* never shown once a different image has been picked.
C26_ResultOfImage == result # JNull => uri = Get(image, "uri")

(***************************************************************************)
(* One request at a time                                                   *)
(***************************************************************************)

\* C27: at most one solve request runs at any time: a request starts only
\* while loading is false, the solve buttons being disabled while it is true,
\* and a result is written only by the one request that runs, which ends
\* with it.
C27_OneRequest ==
  [][/\ requests' <= 1
     /\ requests' > requests => (~loading /\ loading')
     /\ (result' # result /\ result' # JNull) => (requests = 1 /\ requests' = 0)]_vars

\* A second request runs after the first one has been answered.
C27_Witness ==
  /\ requests = 1
  /\ loading
  /\ pc = "fetching"
  /\ argParsed # JNull

(***************************************************************************)
(* A request that fails                                                    *)
(***************************************************************************)

\* C28: when fetch rejects or the body of the reply cannot be decoded, send
\* ends in its catch, which shows the alert "Upload failed": result and
\* resultRaw are still null, loading is false again, and the image and the
\* address of the backend are as they were.
C28_FailureCaught ==
  [][/\ (SendThrow \/ (SendReply /\ pc' # "done")) => (pc' = "failed" /\ ~InFlight')
     /\ (InFlight /\ pc' = "failed") =>
          /\ alert' = "Upload failed"
          /\ result' = JNull
          /\ resultRaw' = JNull
          /\ ~loading'
          /\ image' = image
          /\ backendUrl' = backendUrl]_vars

\* A request sent to the address the user typed has failed before any reply
\* was read, or on an empty body.
C28_Witness ==
  /\ pc = "failed"
  /\ alert = "Upload failed"
  /\ str = ""
  /\ result = JNull
  /\ resultRaw = JNull
  /\ ~loading
  /\ image # JNull
  /\ backendUrl = "http://10.0.2.2:8000"

(***************************************************************************)
(* Handlers that return early                                              *)
(***************************************************************************)

\* The state a handler that returns early has to leave alone.
Kept == <<image, result, resultRaw, loading, showRaw, backendUrl>>

\* C29: a send without an image starts no request and leaves image, result,
\* resultRaw, loading, showRaw and backendUrl as they were, and so does an
\* image pick whose permission is refused or whose picker is cancelled: the
\* step that shows "Pick image first" or the permission alert changes none
\* of them, and a pick that changes any of them has set the image.
C29_EarlyReturn ==
  [][/\ (alert' # alert /\ alert' \in {PICK_FIRST[rev], PERMISSION[rev]})
          => (Kept' = Kept /\ requests' = requests /\ pc' = pc)
     /\ (SendStart /\ image = JNull) => (Kept' = Kept /\ requests' = requests /\ pc' = pc)
     /\ (PickImage /\ Kept' # Kept) => (image' \in Assets /\ alert' = alert)]_vars

\* A send without an image has shown its alert and nothing else has happened.
C29_Witness ==
  /\ rev \in {1, 2}
  /\ alert = PICK_FIRST[rev]
  /\ image = JNull
  /\ pc = "idle"
  /\ requests = 0
  /\ ~loading

\* ---------------------------------------------------------------------
\* Steps that are empty
\* ---------------------------------------------------------------------

\* C30: a steps field that is a string gives a sequence of steps that is not
\* empty and whose elements are strings, not empty and trimmed, also when
\* the string holds nothing but blanks or nothing but fence markers.
C30_StepsNonEmpty ==
  Called =>
    /\ IsArr(out.steps)
    /\ Len(out.steps.a) > 0
    /\ \A i \in DOMAIN out.steps.a :
         /\ IsStr(out.steps.a[i])
         /\ out.steps.a[i].s # ""
         /\ trim(out.steps.a[i].s) = out.steps.a[i].s
====
